---- MODULE Spec2Model ----
(***************************************************************************)
(* Resumable chunked upload: the Express server of backend/server.js (the  *)
(* init, chunk and finalize handlers and the orphan sweep, interleaved at  *)
(* their awaits over the MySQL tables and the upload directories) and the  *)
(* client helpers of src/lib/upload-types.ts and src/hooks.                *)
(*                                                                         *)
(* Files are modelled at chunk granularity: a file is a sequence of slots, *)
(* slot i standing for the byte range [i*CHUNK_SIZE, (i+1)*CHUNK_SIZE).    *)
(* A slot holds 0 (never written: a hole of the sparse file), Src(i) (the  *)
(* bytes of chunk i of the client's source file) or Partial(i) (a proper   *)
(* prefix of those bytes followed by what was there before).               *)
(***************************************************************************)
EXTENDS Integers, Sequences, FiniteSets, TLC

\* ------------------------------------------------------------- bounds
MaxChunks == 2        \* the source file has 1..MaxChunks chunks
MaxReq    == 2        \* HTTP requests in flight at the same time
MaxDbId   == 2        \* AUTO_INCREMENT values the uploads table hands out
MaxFaults == 2        \* I/O failures the environment injects in one run
MaxFileChunks == 4    \* chunks of the largest file the client selects
MaxNow    == 3        \* the client's clock runs from 0 to MaxNow (ms)
MaxNetFaults == 1     \* chunk uploads that fail at the client in one run
MaxStarts == 2        \* times the user starts an upload in one run
MaxRetryFaults == 4   \* chunk uploads that fail in one run of a small file
MaxFinalizes == 2     \* calls of finalizeUpload in flight at the same time
MaxLayoutChunks == 6  \* chunks of the largest file whose chunks are cut out
MaxBudget == 3        \* the largest maxRetries withRetry is called with
MaxName == 4          \* characters of the longest entry name of an archive
MaxArchive == 2       \* entries of the largest archive

UploadIds == {"u1", "u2"}
OneUpload == {"u1"}
Slots     == 1..MaxReq
DbIds     == 1..MaxDbId

VARIABLES
  srcN,       \* number of chunks of the client's source file
  uploads,    \* rows of table uploads
  chunks,     \* rows of table chunks
  nextDbId,   \* AUTO_INCREMENT counter of uploads.id
  locked,     \* uploads.id values whose row is locked by an open transaction
  temp,       \* TEMP_DIR/<uploadId>.partial : file contents, or NoFile
  final,      \* UPLOAD_DIR/<uploadId>_<filename> : file contents, or NoFile
  reqs,       \* the handler running in each request slot, at its await
  resp,       \* the response sent last
  sweep,      \* the run of cleanupOrphanedUploads, at its await
  faults,     \* I/O failures injected so far
  swept,      \* uploads.id values a sweep run has selected (history)
  runs,       \* per uploads.id: finalize pipelines started by a request that
              \* found every chunk RECEIVED (history, counted up to 2)
  spared,     \* uploads.id values of COMPLETED rows past the age threshold that
              \* a selection of the sweep passed over (history)
  touched,    \* uploads.id values of rows whose updated_at is past the age
              \* threshold and that had a chunk marked RECEIVED since (history)
  overrun,    \* a second run of cleanupOrphanedUploads, started by the timer
              \* while the first is still in progress, at its await
  peek        \* a call of peekZipContents on an archive: its arguments, the
              \* entries yauzl has emitted, the names collected, its promise

serverVars == <<srcN, uploads, chunks, nextDbId, locked, temp, final,
                reqs, resp, sweep, faults, swept, runs, spared, touched, overrun,
                peek>>

VARIABLES
  file,        \* fileRef.current: the File the user selected
  now,         \* Date.now() at the client
  issued,         \* issued generateUploadId returned for the file (history)
  session,     \* the hook's session state, or NoSession (null)
  active,      \* activeUploadsRef.current
  isUploading, \* the hook's isUploading state
  isPaused,    \* the hook's isPaused state
  handshake,   \* what initUpload resolved with, last time it was called
  dispatched,  \* indices uploadChunk was called for since startUpload (history)
  netFaults,   \* chunk uploads that failed so far
  inflight,    \* per index: calls of uploadChunk that have not settled yet
  sends,       \* per index: calls of uploadChunk since startUpload (history)
  starts,      \* calls of startUpload so far
  effectDue,   \* a dependency of the queue-runner effect (session?.chunks,
               \* isUploading, isPaused) changed since the effect ran last
  owner,       \* per index: the uploadId the request in flight for the index
               \* was sent with (the argument of uploadChunk); <<>> if none
  finalizing,  \* calls of finalizeUpload that have not settled yet
  finalizes,   \* calls of finalizeUpload since startUpload (history)
  blob,        \* the Blob extractChunk returned last, as its index and its
               \* range of bytes of the file
  snapshots,   \* localStorage under the key of the file's uploadId, in each
               \* of two browsers (a, b) that start the same upload
  seeded,      \* the chunk states the resumable startUpload built in each of
               \* the two browsers, or NoSeed
  retry        \* a call of withRetry: its arguments, its loop variable, the
               \* outcomes of its calls of fn, its waits and its result

clientVars == <<file, now, issued, session, active, isUploading, isPaused,
                handshake, dispatched, netFaults, starts, inflight, sends,
                effectDue, owner, finalizing, finalizes, blob, snapshots, seeded, retry>>

hookVars == <<session, active, isUploading, isPaused, handshake, dispatched,
              netFaults, starts, inflight, sends, effectDue, owner, finalizing,
              finalizes>>

vars == <<serverVars, clientVars>>

\* a path holds a file (its content) or nothing
NoFile == [exists |-> FALSE, data |-> <<>>]
File(data) == [exists |-> TRUE, data |-> data]
NoHash == <<>>

\* ------------------------------------------------------------- files
Src(i)     == i + 1
Partial(i) == 0 - (i + 1)

\* the client's source file, chunk by chunk (extractChunk for each index)
SrcFile(n) == [i \in 1..n |-> Src(i - 1)]

Zeros(k) == [i \in 1..k |-> 0]

\* fd.truncate(len): cut, or extend with zero bytes
Truncate(f, len) ==
  IF Len(f) >= len THEN SubSeq(f, 1, len) ELSE f \o Zeros(len - Len(f))

\* the token a slot holds after `tok` was written over `old`
Overwrite(old, tok, i) ==
  IF tok = Partial(i) /\ old = Src(i) THEN Src(i) ELSE tok

\* fd.write(buf, 0, buf.length, slot * CHUNK_SIZE)
WriteAt(f, slot, tok) ==
  LET g == IF Len(f) >= slot + 1 THEN f ELSE f \o Zeros(slot + 1 - Len(f))
  IN  [g EXCEPT ![slot + 1] = Overwrite(g[slot + 1], tok, slot)]

\* SHA-256 as a collision-free digest of the content
calculateFileHash(f) == <<"sha256", f>>

\* the listing of the archive: the source file is a ZIP with one top-level
\* entry; any other content cannot be opened as a ZIP
peekZipContents(f) == IF f = SrcFile(srcN) THEN <<"entry">> ELSE <<>>

\* ----------------------------------------------- peekZipContents, by entry
\* entry.fileName as yauzl hands it over: a string of name characters and
\* slashes that does not start with a slash (yauzl reports such a name as an
\* error), a folder's name ending in a slash
ZipChars == {"a", "/"}
FileNames ==
  {s \in UNION {[1..n -> ZipChars] : n \in 1..MaxName} : s[1] # "/"}

\* the central directory of a ZIP file: its entries' names in archive order
Archives == UNION {[1..n -> FileNames] : n \in 0..MaxArchive}

\* no call of peekZipContents
NoPeek == [pc |-> "idle", isZip |-> FALSE, zip |-> <<>>, maxEntries |-> 0,
           pos |-> 0, entries |-> <<>>, settled |-> "pending", value |-> <<>>]

\* fileName.split('/')
RECURSIVE SplitSlash(_)
SplitSlash(s) ==
  IF \A i \in 1..Len(s) : s[i] # "/"
    THEN <<s>>
    ELSE LET i == CHOOSE j \in 1..Len(s) :
                    s[j] = "/" /\ \A k \in 1..(j - 1) : s[k] # "/"
         IN  <<SubSeq(s, 1, i - 1)>> \o SplitSlash(SubSeq(s, i + 1, Len(s)))

\* .filter(Boolean): the empty strings are dropped
FilterBoolean(parts) == SelectSeq(parts, LAMBDA part : part # <<>>)

\* entry.fileName.endsWith('/')
EndsWithSlash(s) == Len(s) > 0 /\ s[Len(s)] = "/"

\* pathParts.length === 1 || (pathParts.length === 2 && fileName.endsWith('/'))
Included(fileName) ==
  LET pathParts == FilterBoolean(SplitSlash(fileName)) IN
  \/ Len(pathParts) = 1
  \/ Len(pathParts) = 2 /\ EndsWithSlash(fileName)

\* peekZipContents(filePath, maxEntries) is called: yauzl.open(filePath, ...)
PeekCall(isZip, zip, maxEntries) ==
  /\ peek.pc = "idle"
  /\ isZip \/ zip = <<>>
  /\ peek' = [NoPeek EXCEPT !.pc = "open", !.isZip = isZip, !.zip = zip,
                            !.maxEntries = maxEntries]
  /\ UNCHANGED <<clientVars, srcN, uploads, chunks, nextDbId, locked, temp, final,
                 reqs, resp, sweep, faults, swept, runs, spared, touched, overrun>>

\* the callback of yauzl.open: resolve([]) on an error, zipfile.readEntry()
\* otherwise
PeekOpened ==
  /\ peek.pc = "open"
  /\ peek' = IF peek.isZip
               THEN [peek EXCEPT !.pc = "read"]
               ELSE [peek EXCEPT !.pc = "done", !.settled = "resolved", !.value = <<>>]
  /\ UNCHANGED <<clientVars, srcN, uploads, chunks, nextDbId, locked, temp, final,
                 reqs, resp, sweep, faults, swept, runs, spared, touched, overrun>>

\* zipfile.on('entry'): the name is pushed if it is included; then the next
\* entry is asked for, or the file is closed and the promise resolved
PeekEntry ==
  /\ peek.pc = "read" /\ peek.pos < Len(peek.zip)
  /\ LET fileName == peek.zip[peek.pos + 1]
         entries  == IF Included(fileName)
                       THEN Append(peek.entries, fileName) ELSE peek.entries
     IN  peek' = IF Len(entries) < peek.maxEntries
                   THEN [peek EXCEPT !.entries = entries, !.pos = @ + 1]
                   ELSE [peek EXCEPT !.entries = entries, !.pos = @ + 1,
                                     !.pc = "done", !.settled = "resolved",
                                     !.value = entries]
  /\ UNCHANGED <<clientVars, srcN, uploads, chunks, nextDbId, locked, temp, final,
                 reqs, resp, sweep, faults, swept, runs, spared, touched, overrun>>

\* zipfile.on('end'): resolve(entries)
PeekEnd ==
  /\ peek.pc = "read" /\ peek.pos = Len(peek.zip)
  /\ peek' = [peek EXCEPT !.pc = "done", !.settled = "resolved", !.value = peek.entries]
  /\ UNCHANGED <<clientVars, srcN, uploads, chunks, nextDbId, locked, temp, final,
                 reqs, resp, sweep, faults, swept, runs, spared, touched, overrun>>

\* zipfile.on('error'): yauzl cannot read the next entry; resolve([])
PeekError ==
  /\ peek.pc = "read" /\ peek.pos < Len(peek.zip)
  /\ peek' = [peek EXCEPT !.pc = "done", !.settled = "resolved", !.value = <<>>]
  /\ UNCHANGED <<clientVars, srcN, uploads, chunks, nextDbId, locked, temp, final,
                 reqs, resp, sweep, faults, swept, runs, spared, touched, overrun>>

\* ------------------------------------------------------------- tables
Idle == [kind |-> "idle", pc |-> "idle", u |-> "", db |-> 0, idx |-> 0,
         n |-> 0, st |-> "", fd |-> "none", wr |-> "none", hash |-> NoHash,
         zip |-> <<>>, pre |-> FALSE, len |-> "exact"]

NoResp == [kind |-> "none"]

RowsOf(u) == {x \in uploads : x.upload_id = u}

\* rows[0] of a SELECT: the row with the least primary key
FirstRow(S) == CHOOSE x \in S : \A y \in S : x.id <= y.id

ChunkRows(db) == {c \in chunks : c.upload_id = db}

\* SELECT chunk_index FROM chunks WHERE upload_id = ? AND status = 'RECEIVED'
ReceivedIndices(db) ==
  {c.chunk_index : c \in {d \in ChunkRows(db) : d.status = "RECEIVED"}}

\* SELECT COUNT(*) FROM chunks WHERE upload_id = ? AND status != 'RECEIVED'
CountPending(db) ==
  Cardinality({c \in ChunkRows(db) : c.status # "RECEIVED"})

\* a chunk row exists for every index and every one is RECEIVED
AllReceived(db, n) ==
  \A i \in 0..(n - 1) :
    \E c \in ChunkRows(db) : c.chunk_index = i /\ c.status = "RECEIVED"

\* faulty variant: the status is written without the hash and the listing
UpdateUpload_StatusOnly(db, st, h, z) ==
  {IF x.id = db THEN [x EXCEPT !.status = st, !.stale = FALSE] ELSE x : x \in uploads}

\* UPDATE uploads SET ... WHERE id = db
UpdateUpload(db, st, h, z) ==
  {IF x.id = db
     THEN [x EXCEPT !.status = st, !.final_hash = h, !.zip_contents = z,
                    !.stale = FALSE]
     ELSE x : x \in uploads}

\* the schema's UNIQUE key on uploads.upload_id: may a row for u be inserted
UniqueUploadId(u) == RowsOf(u) = {}

\* res.json(body) / res.status(code).json(body): the handler ends
Respond(r, body) ==
  /\ reqs' = [reqs EXCEPT ![r] = Idle]
  /\ resp' = body

Goto(r, rec) ==
  /\ reqs' = [reqs EXCEPT ![r] = rec]
  /\ UNCHANGED resp

\* a new request is served in the lowest free slot
FreeSlot(r) ==
  /\ reqs[r].kind = "idle"
  /\ \A q \in Slots : q < r => reqs[q].kind # "idle"

\* the file descriptors open on a path follow its inode
Retarget(rq, u, from, to) ==
  [r \in Slots |-> IF rq[r].u = u /\ rq[r].fd = from
                     THEN [rq[r] EXCEPT !.fd = to] ELSE rq[r]]

IoFault == faults < MaxFaults

\* ------------------------------------------------ POST /api/uploads/init
InitResp(u, db, code, st, idxs) ==
  [kind |-> "init", u |-> u, db |-> db, code |-> code, status |-> st,
   uploadedChunks |-> idxs]

\* the request arrives and runs SELECT id, status FROM uploads; for a COMPLETED
\* session it answers at once with 0 .. totalChunks-1, totalChunks being the
\* number in the request body (the client computes it from its file)
InitSelect(r, u) ==
  /\ FreeSlot(r)
  /\ IF RowsOf(u) # {}
       THEN LET up == FirstRow(RowsOf(u)) IN
            IF up.status = "COMPLETED"
              THEN Respond(r, InitResp(u, up.id, 200, "COMPLETED", 0..(srcN - 1)))
              ELSE Goto(r, [Idle EXCEPT !.kind = "init", !.pc = "chunks", !.u = u,
                                        !.db = up.id, !.st = up.status, !.n = srcN])
       ELSE /\ nextDbId <= MaxDbId
            /\ Goto(r, [Idle EXCEPT !.kind = "init", !.pc = "insert", !.u = u, !.n = srcN])
  /\ UNCHANGED <<clientVars, peek, touched, overrun, srcN, uploads, chunks, nextDbId, locked, temp, final, sweep, faults, swept, runs, spared>>

\* existing session: SELECT the RECEIVED chunks and answer
InitExisting(r) ==
  /\ reqs[r].kind = "init" /\ reqs[r].pc = "chunks"
  /\ Respond(r, InitResp(reqs[r].u, reqs[r].db, 200, reqs[r].st,
                        ReceivedIndices(reqs[r].db)))
  /\ UNCHANGED <<clientVars, peek, touched, overrun, srcN, uploads, chunks, nextDbId, locked, temp, final, sweep, faults, swept, runs, spared>>

\* faulty variant: INSERT IGNORE, so that a duplicate key does not throw and the
\* handler goes on to its chunk rows and to the temp file
InitInsertUpload_Ignore(r) ==
  /\ reqs[r].kind = "init" /\ reqs[r].pc = "insert"
  /\ UniqueUploadId(reqs[r].u) => nextDbId <= MaxDbId
  /\ IF UniqueUploadId(reqs[r].u)
       THEN /\ uploads' = uploads \cup
                 {[id |-> nextDbId, upload_id |-> reqs[r].u, total_chunks |-> reqs[r].n,
                   status |-> "UPLOADING", final_hash |-> NoHash, zip_contents |-> <<>>,
                   stale |-> FALSE]}
            /\ nextDbId' = nextDbId + 1
            /\ Goto(r, [reqs[r] EXCEPT !.pc = "insert_chunks", !.db = nextDbId])
       ELSE /\ Goto(r, [reqs[r] EXCEPT !.pc = "insert_chunks", !.db = 0])
            /\ UNCHANGED <<uploads, nextDbId>>
  /\ UNCHANGED <<clientVars, peek, touched, overrun, srcN, chunks, locked, temp, final, sweep, faults, swept, runs, spared>>

\* INSERT INTO uploads ... 'UPLOADING'
InitInsertUpload(r) ==
  /\ reqs[r].kind = "init" /\ reqs[r].pc = "insert"
  /\ UniqueUploadId(reqs[r].u) => nextDbId <= MaxDbId
  /\ IF UniqueUploadId(reqs[r].u)
       THEN /\ uploads' = uploads \cup
                 {[id |-> nextDbId, upload_id |-> reqs[r].u, total_chunks |-> reqs[r].n,
                   status |-> "UPLOADING", final_hash |-> NoHash, zip_contents |-> <<>>,
                   stale |-> FALSE]}
            /\ nextDbId' = nextDbId + 1
            /\ Goto(r, [reqs[r] EXCEPT !.pc = "insert_chunks", !.db = nextDbId])
       ELSE /\ Respond(r, InitResp(reqs[r].u, 0, 500, "", {}))
            /\ UNCHANGED <<uploads, nextDbId>>
  /\ UNCHANGED <<clientVars, peek, touched, overrun, srcN, chunks, locked, temp, final, sweep, faults, swept, runs, spared>>

\* INSERT INTO chunks (upload_id, chunk_index, status) VALUES ?
InitInsertChunks(r) ==
  /\ reqs[r].kind = "init" /\ reqs[r].pc = "insert_chunks"
  /\ chunks' = chunks \cup
       {[upload_id |-> reqs[r].db, chunk_index |-> i, status |-> "PENDING"] :
          i \in 0..(reqs[r].n - 1)}
  /\ Goto(r, [reqs[r] EXCEPT !.pc = "open"])
  /\ UNCHANGED <<clientVars, peek, touched, overrun, srcN, uploads, nextDbId, locked, temp, final, sweep, faults, swept, runs, spared>>

\* fsp.open(tempPath, 'w'): create the file, or truncate it to length 0
InitOpen(r) ==
  /\ reqs[r].kind = "init" /\ reqs[r].pc = "open"
  /\ temp' = [temp EXCEPT ![reqs[r].u] = File(<<>>)]
  /\ Goto(r, [reqs[r] EXCEPT !.pc = "truncate", !.fd = "temp"])
  /\ UNCHANGED <<clientVars, peek, touched, overrun, srcN, uploads, chunks, nextDbId, locked, final, sweep, faults, swept, runs, spared>>

\* fd.truncate(fileSize); fd.close(); res.json(...)
InitTruncate(r) ==
  /\ reqs[r].kind = "init" /\ reqs[r].pc = "truncate"
  /\ LET u == reqs[r].u IN
     /\ temp'  = IF reqs[r].fd = "temp"
                   THEN [temp EXCEPT ![u] = File(Truncate(temp[u].data, reqs[r].n))] ELSE temp
     /\ final' = IF reqs[r].fd = "final"
                   THEN [final EXCEPT ![u] = File(Truncate(final[u].data, reqs[r].n))] ELSE final
     /\ Respond(r, InitResp(u, 0, 200, "UPLOADING", {}))
  /\ UNCHANGED <<clientVars, peek, touched, overrun, srcN, uploads, chunks, nextDbId, locked, sweep, faults, swept, runs, spared>>

\* ------------------------------------ GET /api/uploads/:uploadId/status
StatusResp(u, db, code, st, h, z, idxs) ==
  [kind |-> "status", u |-> u, db |-> db, code |-> code, status |-> st,
   finalHash |-> h, zipContents |-> z, uploadedChunks |-> idxs]

\* the request arrives and runs SELECT * FROM uploads WHERE upload_id = ?
StatusSelect(r, u) ==
  /\ FreeSlot(r)
  /\ IF RowsOf(u) = {}
       THEN Respond(r, StatusResp(u, 0, 404, "", NoHash, <<>>, {}))
       ELSE LET up == FirstRow(RowsOf(u)) IN
            Goto(r, [Idle EXCEPT !.kind = "status", !.pc = "chunks", !.u = u,
                                 !.db = up.id, !.st = up.status,
                                 !.hash = up.final_hash, !.zip = up.zip_contents])
  /\ UNCHANGED <<clientVars, peek, touched, overrun, srcN, uploads, chunks, nextDbId, locked, temp, final, sweep, faults, swept, runs, spared>>

\* SELECT chunk_index FROM chunks ... 'RECEIVED'; res.json with the fields of
\* the row read before
StatusRespond(r) ==
  /\ reqs[r].kind = "status" /\ reqs[r].pc = "chunks"
  /\ Respond(r, StatusResp(reqs[r].u, reqs[r].db, 200, reqs[r].st, reqs[r].hash,
                          reqs[r].zip, ReceivedIndices(reqs[r].db)))
  /\ UNCHANGED <<clientVars, peek, touched, overrun, srcN, uploads, chunks, nextDbId, locked, temp, final, sweep, faults, swept, runs, spared>>

\* -------------------------------------- POST /api/uploads/:uploadId/chunk
ChunkResp(u, db, i, code, msg, pre) ==
  [kind |-> "chunk", u |-> u, db |-> db, idx |-> i, code |-> code, message |-> msg,
   pre |-> pre]

\* faulty variant: every chunk is written at the start of the file
ByteOffset_Zero(chunkIdx) == 0

\* byteOffset = chunkIdx * CHUNK_SIZE, in slots
ByteOffset(chunkIdx) == chunkIdx

\* history: when the request arrived its session was UPLOADING and the
\* handshake had created the chunk row and the temp file
Established(u, db, i) ==
  /\ temp[u].exists
  /\ \E x \in uploads : x.id = db /\ x.status = "UPLOADING"
  /\ \E c \in ChunkRows(db) : c.chunk_index = i

\* req.file.buffer.length against the length chunk i of the file has
\* (CHUNK_SIZE, or the remainder for the last index): the same, or less
ChunkLengths == {"exact", "short"}

\* the request arrives with chunkIndex = i, any integer parseInt yields that is
\* not negative, and runs SELECT id, status FROM uploads
ChunkSelectUploadAny(r, u, i, len) ==
  /\ FreeSlot(r)
  /\ i \in Nat
  /\ IF RowsOf(u) = {}
       THEN Respond(r, ChunkResp(u, 0, i, 404, "Upload not found", FALSE))
       ELSE LET up  == FirstRow(RowsOf(u))
                pre == Established(u, up.id, i)
            IN
            IF up.status = "COMPLETED"
              THEN Respond(r, ChunkResp(u, up.id, i, 200, "Upload already completed", pre))
              ELSE Goto(r, [Idle EXCEPT !.kind = "chunk", !.pc = "check", !.u = u,
                                        !.db = up.id, !.idx = i, !.pre = pre,
                                        !.len = len])
  /\ UNCHANGED <<clientVars, peek, touched, overrun, srcN, uploads, chunks, nextDbId, locked, temp, final, sweep, faults, swept, runs, spared>>

\* the request of a client that sends chunk i of its file: the buffer holds the
\* bytes of chunk i of the source file (all of them, or with len = "short" only
\* a proper prefix)
ChunkSelectUpload(r, u, i, len) ==
  /\ i \in 0..(srcN - 1)
  /\ ChunkSelectUploadAny(r, u, i, len)

\* SELECT status FROM chunks: the idempotency check
ChunkCheck(r) ==
  /\ reqs[r].kind = "chunk" /\ reqs[r].pc = "check"
  /\ IF \E c \in ChunkRows(reqs[r].db) :
          c.chunk_index = reqs[r].idx /\ c.status = "RECEIVED"
       THEN Respond(r, ChunkResp(reqs[r].u, reqs[r].db, reqs[r].idx, 200,
                                 "Chunk already received", reqs[r].pre))
       ELSE Goto(r, [reqs[r] EXCEPT !.pc = "open"])
  /\ UNCHANGED <<clientVars, peek, touched, overrun, srcN, uploads, chunks, nextDbId, locked, temp, final, sweep, faults, swept, runs, spared>>

\* fsp.open(tempPath, 'r+'): fails when the file does not exist
ChunkOpen(r) ==
  /\ reqs[r].kind = "chunk" /\ reqs[r].pc = "open"
  /\ IF temp[reqs[r].u] = NoFile
       THEN Respond(r, ChunkResp(reqs[r].u, reqs[r].db, reqs[r].idx, 500, "ENOENT",
                                 reqs[r].pre))
       ELSE Goto(r, [reqs[r] EXCEPT !.pc = "write", !.fd = "temp"])
  /\ UNCHANGED <<clientVars, peek, touched, overrun, srcN, uploads, chunks, nextDbId, locked, temp, final, sweep, faults, swept, runs, spared>>

\* what fd.write can do: write the whole buffer, write a proper prefix of it
\* (it resolves with bytesWritten < length), or reject
WriteOutcomes == {"full", "short", "error"}

\* fd.write(chunkData, 0, chunkData.length, byteOffset); fd.close()
ChunkWrite(r, outcome) ==
  /\ reqs[r].kind = "chunk" /\ reqs[r].pc = "write"
  /\ outcome \in WriteOutcomes
  /\ outcome # "full" => IoFault
  /\ faults' = IF outcome = "full" THEN faults ELSE faults + 1
  /\ LET u   == reqs[r].u
         i   == reqs[r].idx
         tok == IF outcome = "full" /\ reqs[r].len = "exact" THEN Src(i) ELSE Partial(i)
     IN
     /\ temp'  = IF reqs[r].fd = "temp" /\ outcome # "error"
                   THEN [temp EXCEPT ![u] = File(WriteAt(temp[u].data, ByteOffset(i), tok))]
                   ELSE temp
     /\ final' = IF reqs[r].fd = "final" /\ outcome # "error"
                   THEN [final EXCEPT ![u] = File(WriteAt(final[u].data, ByteOffset(i), tok))]
                   ELSE final
     /\ IF outcome = "error"
          THEN Respond(r, ChunkResp(u, reqs[r].db, i, 500, "write failed", reqs[r].pre))
          ELSE Goto(r, [reqs[r] EXCEPT !.pc = "update", !.fd = "none", !.wr = outcome])
  /\ UNCHANGED <<clientVars, peek, touched, overrun, srcN, uploads, chunks, nextDbId, locked, sweep, swept, runs, spared>>

\* UPDATE chunks SET status = 'RECEIVED' WHERE upload_id = ? AND chunk_index = ?
MarkChunkReceived(db, i) ==
  {IF c.upload_id = db /\ c.chunk_index = i
     THEN [c EXCEPT !.status = "RECEIVED"] ELSE c : c \in chunks}

ChunkUpdate(r) ==
  /\ reqs[r].kind = "chunk" /\ reqs[r].pc = "update"
  /\ chunks' = MarkChunkReceived(reqs[r].db, reqs[r].idx)
  /\ Respond(r, ChunkResp(reqs[r].u, reqs[r].db, reqs[r].idx, 200,
                          "Chunk uploaded successfully", reqs[r].pre))
  /\ touched' = touched \cup {x.id : x \in {y \in uploads : y.id = reqs[r].db /\ y.stale}}
  /\ UNCHANGED <<clientVars, peek, overrun, srcN, uploads, nextDbId, locked, temp, final, sweep, faults, swept, runs, spared>>

\* ----------------------------------- POST /api/uploads/:uploadId/finalize
FinMessage(code) ==
  CASE code = 200 -> "Upload finalized successfully"
    [] code = 404 -> "Upload not found"
    [] code = 409 -> "Upload is already being processed"
    [] code = 400 -> "Not all chunks received"
    [] OTHER      -> "Failed to finalize upload"

FinResp(u, db, code, h, z, pre, n) ==
  [kind |-> "finalize", u |-> u, db |-> db, code |-> code,
   message |-> FinMessage(code), hash |-> h,
   zipContents |-> z, pre |-> pre, pendingCount |-> n]

\* faulty variant: the answer for a COMPLETED session carries no result
StoredResult_Empty(up) == [hash |-> NoHash, zipContents |-> <<>>]

\* hash: upload.final_hash,
\* zipContents: upload.zip_contents ? JSON.parse(upload.zip_contents) : []
StoredResult(up) == [hash |-> up.final_hash, zipContents |-> up.zip_contents]

\* res.json({success: true, message: 'Upload already completed', ...})
FinCached(up, pre) ==
  [FinResp(up.upload_id, up.id, 200, StoredResult(up).hash,
           StoredResult(up).zipContents, pre, 0)
     EXCEPT !.message = "Upload already completed"]

\* faulty variant: the PROCESSING check is missing
InFlight_Missing(up) == FALSE

\* if (upload.status === 'PROCESSING'): another finalize is in flight
InFlight(up) == up.status = "PROCESSING"

\* beginTransaction; SELECT * FROM uploads WHERE upload_id = ? FOR UPDATE;
\* the three early returns roll back at once
FinSelect(r, u) ==
  /\ FreeSlot(r)
  /\ \A x \in RowsOf(u) : x.id \notin locked
  /\ IF RowsOf(u) = {}
       THEN /\ Respond(r, FinResp(u, 0, 404, NoHash, <<>>, FALSE, 0))
            /\ UNCHANGED locked
       ELSE LET up  == FirstRow(RowsOf(u))
                pre == AllReceived(up.id, up.total_chunks)
            IN
            IF up.status = "COMPLETED"
              THEN /\ Respond(r, FinCached(up, pre))
                   /\ UNCHANGED locked
            ELSE IF InFlight(up)
              THEN /\ Respond(r, FinResp(u, up.id, 409, NoHash, <<>>, pre, 0))
                   /\ UNCHANGED locked
            ELSE /\ Goto(r, [Idle EXCEPT !.kind = "finalize", !.pc = "count", !.u = u,
                                         !.db = up.id, !.st = up.status, !.pre = pre])
                 /\ locked' = locked \cup {up.id}
  /\ UNCHANGED <<clientVars, peek, touched, overrun, srcN, uploads, chunks, nextDbId, temp, final, sweep, faults, swept, runs, spared>>

\* the guard of the PROCESSING update: no chunk row that is not RECEIVED
FinalizeGuard(db) == CountPending(db) = 0

\* SELECT COUNT(*) ... status != 'RECEIVED'; then rollback and 400, or
\* UPDATE uploads SET status = 'PROCESSING' and commit
FinCount(r) ==
  /\ reqs[r].kind = "finalize" /\ reqs[r].pc = "count"
  /\ locked' = locked \ {reqs[r].db}
  /\ IF FinalizeGuard(reqs[r].db)
       THEN /\ uploads' = {IF x.id = reqs[r].db
                             THEN [x EXCEPT !.status = "PROCESSING", !.stale = FALSE]
                             ELSE x : x \in uploads}
            /\ Goto(r, [reqs[r] EXCEPT !.pc = "hash"])
            /\ runs' = IF reqs[r].pre /\ runs[reqs[r].db] < 2
                         THEN [runs EXCEPT ![reqs[r].db] = @ + 1] ELSE runs
       ELSE /\ Respond(r, FinResp(reqs[r].u, reqs[r].db, 400, NoHash, <<>>,
                                  reqs[r].pre, CountPending(reqs[r].db)))
            /\ UNCHANGED <<uploads, runs>>
  /\ UNCHANGED <<clientVars, peek, touched, overrun, srcN, chunks, nextDbId, temp, final, sweep, faults, swept, spared>>

\* calculateFileHash(tempPath); peekZipContents(tempPath)
FinHash(r, fail) ==
  /\ reqs[r].kind = "finalize" /\ reqs[r].pc = "hash"
  /\ fail => IoFault
  /\ faults' = IF fail THEN faults + 1 ELSE faults
  /\ IF fail \/ temp[reqs[r].u] = NoFile
       THEN Goto(r, [reqs[r] EXCEPT !.pc = "mark_failed"])
       ELSE Goto(r, [reqs[r] EXCEPT !.pc = "rename",
                                    !.hash = calculateFileHash(temp[reqs[r].u].data),
                                    !.zip = peekZipContents(temp[reqs[r].u].data)])
  /\ UNCHANGED <<clientVars, peek, touched, overrun, srcN, uploads, chunks, nextDbId, locked, temp, final, sweep, swept, runs, spared>>

\* fsp.rename(tempPath, finalPath)
FinRename(r, fail) ==
  /\ reqs[r].kind = "finalize" /\ reqs[r].pc = "rename"
  /\ fail => IoFault
  /\ faults' = IF fail THEN faults + 1 ELSE faults
  /\ LET u == reqs[r].u IN
     IF fail \/ temp[u] = NoFile
       THEN /\ Goto(r, [reqs[r] EXCEPT !.pc = "mark_failed"])
            /\ UNCHANGED <<temp, final>>
       ELSE /\ final' = [final EXCEPT ![u] = temp[u]]
            /\ temp' = [temp EXCEPT ![u] = NoFile]
            /\ reqs' = [Retarget(Retarget(reqs, u, "final", "orphan"), u, "temp", "final")
                          EXCEPT ![r].pc = "complete"]
            /\ UNCHANGED resp
  /\ UNCHANGED <<clientVars, peek, touched, overrun, srcN, uploads, chunks, nextDbId, locked, sweep, swept, runs, spared>>

\* UPDATE uploads SET status = 'COMPLETED', final_hash, zip_contents WHERE id = ?
FinComplete(r, fail) ==
  /\ reqs[r].kind = "finalize" /\ reqs[r].pc = "complete"
  /\ reqs[r].db \notin locked
  /\ fail => IoFault
  /\ faults' = IF fail THEN faults + 1 ELSE faults
  /\ IF fail
       THEN /\ Goto(r, [reqs[r] EXCEPT !.pc = "mark_failed"])
            /\ UNCHANGED uploads
       ELSE /\ uploads' = UpdateUpload(reqs[r].db, "COMPLETED", reqs[r].hash, reqs[r].zip)
            /\ Respond(r, FinResp(reqs[r].u, reqs[r].db, 200, reqs[r].hash,
                                  reqs[r].zip, reqs[r].pre, 0))
  /\ UNCHANGED <<clientVars, peek, touched, overrun, srcN, chunks, nextDbId, locked, temp, final, sweep, swept, runs, spared>>

\* catch (processError): UPDATE uploads SET status = 'FAILED' WHERE id = ?; when
\* this statement throws too, the outer catch answers 500 and the row keeps
\* the status it has
FinMarkFailed(r, fail) ==
  /\ reqs[r].kind = "finalize" /\ reqs[r].pc = "mark_failed"
  /\ reqs[r].db \notin locked
  /\ fail => IoFault
  /\ faults' = IF fail THEN faults + 1 ELSE faults
  /\ uploads' = {IF x.id = reqs[r].db /\ ~fail
                   THEN [x EXCEPT !.status = "FAILED", !.stale = FALSE]
                   ELSE x : x \in uploads}
  /\ Respond(r, FinResp(reqs[r].u, reqs[r].db, 500, NoHash, <<>>, reqs[r].pre, 0))
  /\ UNCHANGED <<clientVars, peek, touched, overrun, srcN, chunks, nextDbId, locked, temp, final, sweep, swept, runs, spared>>

\* ------------------------------------------------ cleanupOrphanedUploads
SweepIdle == [pc |-> "idle", orphans |-> {}, cur |-> "", sel |-> {}]

\* faulty variant: the selection looks at the age alone
Orphans_AnyStatus == {x \in uploads : x.stale}

\* SELECT upload_id FROM uploads WHERE status IN ('UPLOADING', 'FAILED')
\*   AND updated_at < DATE_SUB(NOW(), INTERVAL ? HOUR)
Orphans ==
  {x \in uploads : x.status \in {"UPLOADING", "FAILED"} /\ x.stale}

\* the rows past the age threshold that the selection leaves alone for being
\* COMPLETED
PassedOver == {x.id : x \in {y \in uploads : y.status = "COMPLETED" /\ y.stale}}

\* the timer fires: the run selects its orphans
SweepSelect ==
  /\ sweep.pc = "idle"
  /\ Orphans # {} \/ ~(PassedOver \subseteq spared)
  /\ IF Orphans = {}
       THEN UNCHANGED sweep
       ELSE LET ids == {x.upload_id : x \in Orphans}
                u   == CHOOSE v \in ids : TRUE
            IN  sweep' = [pc |-> "unlink", orphans |-> ids \ {u}, cur |-> u,
                          sel |-> {[id |-> x.id, upload_id |-> x.upload_id,
                                    status |-> x.status] : x \in Orphans}]
  /\ swept' = swept \cup {x.id : x \in Orphans}
  /\ spared' = spared \cup PassedOver
  /\ UNCHANGED <<clientVars, peek, touched, overrun, srcN, uploads, chunks, nextDbId, locked, temp, final, reqs, resp, faults, runs>>

\* faulty variant: the run leaves the temp file where it is
SweepUnlink_Keep ==
  /\ sweep.pc = "unlink"
  /\ sweep' = [sweep EXCEPT !.pc = "del_chunks"]
  /\ UNCHANGED <<clientVars, peek, touched, overrun, srcN, uploads, chunks, nextDbId, locked, temp, final, reqs, resp, faults, swept, runs, spared>>

\* fsp.unlink(tempPath), its error ignored
SweepUnlink ==
  /\ sweep.pc = "unlink"
  /\ temp' = [temp EXCEPT ![sweep.cur] = NoFile]
  /\ reqs' = Retarget(reqs, sweep.cur, "temp", "orphan")
  /\ sweep' = [sweep EXCEPT !.pc = "del_chunks"]
  /\ UNCHANGED <<clientVars, peek, touched, overrun, srcN, uploads, chunks, nextDbId, locked, final, resp, faults, swept, runs, spared>>

\* DELETE FROM chunks WHERE upload_id IN (SELECT id FROM uploads WHERE upload_id = ?)
SweepDeleteChunks ==
  /\ sweep.pc = "del_chunks"
  /\ chunks' = {c \in chunks : c.upload_id \notin {x.id : x \in RowsOf(sweep.cur)}}
  /\ sweep' = [sweep EXCEPT !.pc = "del_upload"]
  /\ UNCHANGED <<clientVars, peek, touched, overrun, srcN, uploads, nextDbId, locked, temp, final, reqs, resp, faults, swept, runs, spared>>

\* DELETE FROM uploads WHERE upload_id = ?; then the next orphan
SweepDeleteUpload ==
  /\ sweep.pc = "del_upload"
  /\ \A x \in RowsOf(sweep.cur) : x.id \notin locked
  /\ uploads' = uploads \ RowsOf(sweep.cur)
  /\ sweep' = IF sweep.orphans = {} THEN SweepIdle
              ELSE LET u == CHOOSE v \in sweep.orphans : TRUE
                   IN  [sweep EXCEPT !.pc = "unlink", !.orphans = sweep.orphans \ {u},
                                     !.cur = u]
  /\ UNCHANGED <<clientVars, peek, touched, overrun, srcN, chunks, nextDbId, locked, temp, final, reqs, resp, faults, swept, runs, spared>>

\* setInterval(cleanupOrphanedUploads, 60 * 60 * 1000): the timer calls
\* cleanupOrphanedUploads again whether or not the run it started an hour ago
\* has returned; a run that is still at one of its awaits then goes on side by
\* side with the new one
OverrunSelect ==
  /\ sweep.pc # "idle" /\ overrun.pc = "idle"
  /\ Orphans # {}
  /\ LET ids == {x.upload_id : x \in Orphans}
         u   == CHOOSE v \in ids : TRUE
     IN  overrun' = [pc |-> "unlink", orphans |-> ids \ {u}, cur |-> u,
                     sel |-> {[id |-> x.id, upload_id |-> x.upload_id,
                               status |-> x.status] : x \in Orphans}]
  /\ swept' = swept \cup {x.id : x \in Orphans}
  /\ spared' = spared \cup PassedOver
  /\ UNCHANGED <<clientVars, peek, touched, srcN, uploads, chunks, nextDbId, locked, temp, final, reqs, resp, sweep, faults, runs>>

\* the second run: fsp.unlink(tempPath), its error ignored
OverrunUnlink ==
  /\ overrun.pc = "unlink"
  /\ temp' = [temp EXCEPT ![overrun.cur] = NoFile]
  /\ reqs' = Retarget(reqs, overrun.cur, "temp", "orphan")
  /\ overrun' = [overrun EXCEPT !.pc = "del_chunks"]
  /\ UNCHANGED <<clientVars, peek, touched, srcN, uploads, chunks, nextDbId, locked, final, resp, sweep, faults, swept, runs, spared>>

\* the second run: DELETE FROM chunks
OverrunDeleteChunks ==
  /\ overrun.pc = "del_chunks"
  /\ chunks' = {c \in chunks : c.upload_id \notin {x.id : x \in RowsOf(overrun.cur)}}
  /\ overrun' = [overrun EXCEPT !.pc = "del_upload"]
  /\ UNCHANGED <<clientVars, peek, touched, srcN, uploads, nextDbId, locked, temp, final, reqs, resp, sweep, faults, swept, runs, spared>>

\* the second run: DELETE FROM uploads; then the next orphan
OverrunDeleteUpload ==
  /\ overrun.pc = "del_upload"
  /\ \A x \in RowsOf(overrun.cur) : x.id \notin locked
  /\ uploads' = uploads \ RowsOf(overrun.cur)
  /\ overrun' = IF overrun.orphans = {} THEN SweepIdle
                ELSE LET u == CHOOSE v \in overrun.orphans : TRUE
                     IN  [overrun EXCEPT !.pc = "unlink",
                                         !.orphans = overrun.orphans \ {u}, !.cur = u]
  /\ UNCHANGED <<clientVars, peek, touched, srcN, chunks, nextDbId, locked, temp, final, reqs, resp, sweep, faults, swept, runs, spared>>

\* more than CLEANUP_HOURS (24 by default) pass: every row's updated_at is now
\* older than NOW() - INTERVAL CLEANUP_HOURS HOUR.  A request is served in far
\* less than that, so the hours pass between requests and never between two
\* statements of one handler.
TimePasses ==
  /\ \E x \in uploads : ~x.stale
  /\ \A r \in Slots : reqs[r].kind = "idle"
  /\ uploads' = {[x EXCEPT !.stale = TRUE] : x \in uploads}
  /\ touched' = {}
  /\ UNCHANGED <<clientVars, peek, overrun, srcN, chunks, nextDbId, locked, temp, final, reqs, resp, sweep, faults, swept, runs, spared>>

\* ------------------------------------------- client: lib/upload-types.ts
CHUNK_SIZE == 5 * 1024 * 1024
MAX_CONCURRENT_UPLOADS == 3
MAX_RETRIES == 3
BASE_RETRY_DELAY == 1000

\* faulty variant: the division rounds down
calculateTotalChunks_Floor(fileSize) == fileSize \div CHUNK_SIZE

\* Math.ceil(fileSize / CHUNK_SIZE)
calculateTotalChunks(fileSize) ==
  (fileSize \div CHUNK_SIZE) + (IF fileSize % CHUNK_SIZE = 0 THEN 0 ELSE 1)

\* a string is the sequence of its characters
Digits == <<"0", "1", "2", "3", "4", "5", "6", "7", "8", "9", "a", "b", "c",
            "d", "e", "f", "g", "h", "i", "j", "k", "l", "m", "n", "o", "p",
            "q", "r", "s", "t", "u", "v", "w", "x", "y", "z">>

DigitValue(c) == CHOOSE k \in 0..35 : Digits[k + 1] = c

\* str.charCodeAt(i), for the characters that occur in the modelled strings
CharCodeAt(c) ==
  IF c = "-" THEN 45
  ELSE IF c = "." THEN 46
  ELSE IF DigitValue(c) < 10 THEN 48 + DigitValue(c)
  ELSE 97 + (DigitValue(c) - 10)

\* Number.prototype.toString(radix), and the `${n}` of a template (radix 10)
RECURSIVE NumberToString(_, _)
NumberToString(n, radix) ==
  IF n < radix
    THEN <<Digits[n + 1]>>
    ELSE NumberToString(n \div radix, radix) \o <<Digits[(n % radix) + 1]>>

\* a 32-bit integer is kept as two 16-bit limbs <<high, low>> of its two's
\* complement, so that no intermediate value exceeds the 32-bit integers of TLC
Limb == 256 * 256

\* hash = ((hash << 5) - hash) + char; hash = hash & hash
\* i.e. 31 * hash + char wrapped to 32 bits
HashStep(h, c) ==
  LET lo == 31 * h[2] + c
  IN  <<(31 * h[1] + (lo \div Limb)) % Limb, lo % Limb>>

\* the loop of generateUploadId over the characters of str
RECURSIVE StringHash(_, _)
StringHash(h, str) ==
  IF str = <<>> THEN h ELSE StringHash(HashStep(h, CharCodeAt(Head(str))), Tail(str))

\* Math.abs of a 32-bit integer: negative when bit 31 is set
MathAbs(h) ==
  IF h[1] < Limb \div 2
    THEN h
    ELSE <<(Limb - 1 - h[1] + (IF h[2] = 0 THEN 1 ELSE 0)) % Limb, (Limb - h[2]) % Limb>>

RECURSIVE PadLeft(_, _)
PadLeft(str, k) == IF Len(str) >= k THEN str ELSE PadLeft(<<"0">> \o str, k)

\* Math.abs(hash).toString(16)
HexOf(h) ==
  IF h[1] = 0
    THEN NumberToString(h[2], 16)
    ELSE NumberToString(h[1], 16) \o PadLeft(NumberToString(h[2], 16), 4)

\* `${file.name}-${file.size}-${file.lastModified}`
IdSource(f) ==
  f.name \o <<"-">> \o NumberToString(f.size, 10) \o <<"-">>
         \o NumberToString(f.lastModified, 10)

\* generateUploadId(file), called when Date.now() is t
generateUploadId(f, t) ==
  <<"u", "p", "l", "o", "a", "d", "_">> \o HexOf(MathAbs(StringHash(<<0, 0>>, IdSource(f))))
     \o <<"_">> \o NumberToString(t, 36)

\* the files the user can select
Names == {<<"a", ".", "z", "i", "p">>, <<"b", ".", "z", "i", "p">>}
Sizes == {0, 1, CHUNK_SIZE, CHUNK_SIZE + 1, MaxFileChunks * CHUNK_SIZE}
LastModifieds == {1, 2}
Files == [name : Names, size : Sizes, lastModified : LastModifieds]
NoFileRef == [name |-> <<>>, size |-> 0, lastModified |-> 0]

\* the user selects the file again, or time passes
GenerateUploadId ==
  /\ file \in Files
  /\ issued' = issued \cup {generateUploadId(file, now)}
  /\ UNCHANGED <<serverVars, file, now, hookVars, blob, snapshots, seeded, retry>>

Tick ==
  /\ now < MaxNow
  /\ now' = now + 1
  /\ UNCHANGED <<serverVars, file, issued, hookVars, blob, snapshots, seeded, retry>>

\* ------------------------------------- client: hooks/use-chunked-upload.ts
NoSession == [status |-> "none"]
NoHandshake == [ok |-> FALSE, uploadedChunks |-> {}]
NoBlob == [index |-> -1, start |-> 0, end |-> 0]

Indices(n) == 0..(n - 1)

\* no call of uploadChunk for any index
NoCalls == [i \in Indices(MaxFileChunks) |-> 0]

Min(a, b) == IF a <= b THEN a ELSE b

\* Blob.slice(start, end): the bytes start .. end - 1, both ends clamped to the
\* size of the blob
Slice(size, start, end) ==
  LET s == Min(start, size)
      e == Min(end, size)
  IN  [start |-> s, end |-> IF e < s THEN s ELSE e]

\* faulty variant: the last chunk is cut like every other one
extractChunk_Fixed(f, chunkIndex) ==
  [index |-> chunkIndex, start |-> chunkIndex * CHUNK_SIZE,
   end |-> chunkIndex * CHUNK_SIZE + CHUNK_SIZE]

\* extractChunk(file, chunkIndex)
extractChunk(f, chunkIndex) ==
  LET start == chunkIndex * CHUNK_SIZE
      end   == Min(start + CHUNK_SIZE, f.size)
      b     == Slice(f.size, start, end)
  IN  [index |-> chunkIndex, start |-> b.start, end |-> b.end]

\* uploadSingleChunk cuts chunk i out of the file
ExtractChunk(i) ==
  /\ i \in Indices(calculateTotalChunks(file.size))
  /\ blob' = extractChunk(file, i)
  /\ UNCHANGED <<serverVars, file, now, issued, hookVars, snapshots, seeded, retry>>

\* ------------------------------------------------ withRetry (upload-api.ts)
\* no call of withRetry
NoRetry == [pc |-> "idle", maxRetries |-> 0, baseDelay |-> 0, attempt |-> 0,
            outcomes |-> <<>>, lastError |-> 0, delays |-> <<>>,
            result |-> [kind |-> "none", of |-> 0]]

\* Math.random() * 500, a number in [0, 500): its least value, its greatest
\* whole value and two values in between
JitterBound == 500
Jitters == {0, 1, 250, JitterBound - 1}

\* faulty variant: the loop runs once more
LoopRuns_OneMore(attempt, maxRetries) == attempt <= maxRetries + 1

\* for (let attempt = 0; attempt <= maxRetries; attempt++)
LoopRuns(attempt, maxRetries) == attempt <= maxRetries

\* faulty variant: the delay grows linearly
Backoff_Linear(baseDelay, attempt, jitter) == baseDelay * (attempt + 1) + jitter

\* baseDelay * Math.pow(2, attempt) + Math.random() * 500
Backoff(baseDelay, attempt, jitter) == baseDelay * 2^attempt + jitter

\* withRetry(fn, maxRetries, baseDelay) is called: lastError = null, attempt = 0
withRetry(maxRetries, baseDelay) ==
  /\ retry.pc = "idle"
  /\ retry' = [NoRetry EXCEPT !.pc = "try", !.maxRetries = maxRetries,
                              !.baseDelay = baseDelay]
  /\ UNCHANGED <<serverVars, file, now, issued, hookVars, blob, snapshots, seeded>>

\* the loop condition holds, fn is called and its promise settles: it resolves
\* and withRetry returns its value, or it rejects and the error (named by the
\* number of the call) becomes lastError; then the wait follows if
\* attempt < maxRetries, the next test of the loop condition otherwise
withRetryAttempt(ok) ==
  /\ retry.pc = "try"
  /\ LoopRuns(retry.attempt, retry.maxRetries)
  /\ LET k == Len(retry.outcomes) + 1 IN
     retry' =
       IF ok
         THEN [retry EXCEPT !.outcomes = Append(@, TRUE), !.pc = "done",
                            !.result = [kind |-> "returned", of |-> k]]
         ELSE [retry EXCEPT !.outcomes = Append(@, FALSE), !.lastError = k,
                            !.pc = IF retry.attempt < retry.maxRetries
                                     THEN "wait" ELSE "try",
                            !.attempt = IF retry.attempt < retry.maxRetries
                                          THEN @ ELSE @ + 1]
  /\ UNCHANGED <<serverVars, file, now, issued, hookVars, blob, snapshots, seeded>>

\* await new Promise(resolve => setTimeout(resolve, delay)); attempt++
withRetryWait(jitter) ==
  /\ retry.pc = "wait"
  /\ retry' = [retry EXCEPT
                 !.delays = Append(@, Backoff(retry.baseDelay, retry.attempt, jitter)),
                 !.attempt = @ + 1,
                 !.pc = "try"]
  /\ UNCHANGED <<serverVars, file, now, issued, hookVars, blob, snapshots, seeded>>

\* the loop condition fails: throw lastError
withRetryThrow ==
  /\ retry.pc = "try"
  /\ ~LoopRuns(retry.attempt, retry.maxRetries)
  /\ retry' = [retry EXCEPT !.pc = "done",
                            !.result = [kind |-> "thrown", of |-> retry.lastError]]
  /\ UNCHANGED <<serverVars, file, now, issued, hookVars, blob, snapshots, seeded>>

\* localStorage.getItem(key) returns null
NoSnapshot == [stored |-> FALSE]

\* what saveUploadState wrote for a file of n chunks: the chunk states (here
\* the indices whose status is "success") and a timestamp, which is more than
\* 24 hours old or not
Snapshots(n) ==
  {NoSnapshot} \cup [stored : {TRUE}, expired : BOOLEAN, success : SUBSET Indices(n)]

\* loadUploadState(uploadId): the stored state, or null when there is none or
\* it is older than 24 hours
loadUploadState(s) ==
  IF ~s.stored THEN NoSnapshot
  ELSE IF s.expired THEN NoSnapshot ELSE s

\* faulty variant: the indices of the snapshot count as uploaded even when the
\* handshake succeeded
UploadedChunks_Merged(ok, R, savedState) ==
  IF savedState.stored THEN R \cup savedState.success ELSE R

\* the resumable startUpload: uploadedChunks is what initUpload resolved with;
\* when initUpload threw, the indices the saved state holds as "success"
UploadedChunks(ok, R, savedState) ==
  IF ok THEN R
  ELSE IF savedState.stored THEN savedState.success ELSE {}

\* status: uploadedChunks.includes(index) ? 'success' : 'pending', retries: 0
SeedChunks(n, uploadedChunks) ==
  [i \in Indices(n) |->
     [status |-> IF i \in uploadedChunks THEN "success" ELSE "pending",
      retries |-> 0]]

NoSeed == [a |-> <<>>, b |-> <<>>]

\* the resumable startUpload runs in both browsers; the handshake of each has
\* the same outcome (resolves with the indices R, or throws)
ResumableStartUpload(ok, R) ==
  /\ seeded = NoSeed
  /\ session = NoSession
  /\ R \subseteq Indices(calculateTotalChunks(file.size))
  /\ ~ok => R = {}
  /\ handshake' = [ok |-> ok, uploadedChunks |-> R]
  /\ seeded' =
       [a |-> SeedChunks(calculateTotalChunks(file.size),
                         UploadedChunks(ok, R, loadUploadState(snapshots.a))),
        b |-> SeedChunks(calculateTotalChunks(file.size),
                         UploadedChunks(ok, R, loadUploadState(snapshots.b)))]
  /\ UNCHANGED <<serverVars, file, now, issued, session, active, isUploading,
                 isPaused, dispatched, netFaults, starts, inflight, sends,
                 effectDue, owner, finalizing, finalizes, blob, snapshots, retry>>

\* startUpload(file): the handshake resolves with the indices R the server
\* holds (ok), or initUpload throws and startUpload rejects
startUpload(f, ok, R) ==
  /\ session = NoSession
  /\ starts < MaxStarts
  /\ starts' = starts + 1
  /\ f = file
  /\ R \subseteq Indices(calculateTotalChunks(f.size))
  /\ ~ok => R = {}
  /\ handshake' = [ok |-> ok, uploadedChunks |-> R]
  /\ IF ok
       THEN /\ session' =
                 [uploadId |-> generateUploadId(f, now),
                  totalChunks |-> calculateTotalChunks(f.size),
                  status |-> "uploading",
                  chunks |-> [i \in Indices(calculateTotalChunks(f.size)) |->
                                [status |-> "pending", retries |-> 0]]]
            /\ isUploading' = TRUE
            /\ isPaused' = FALSE
            /\ dispatched' = {}
            /\ sends' = NoCalls
            /\ finalizes' = 0
            /\ effectDue' = TRUE
       ELSE UNCHANGED <<session, isUploading, isPaused, dispatched, sends,
                        finalizes, effectDue>>
  /\ UNCHANGED <<serverVars, file, now, issued, active, netFaults, inflight,
                 owner, finalizing, blob, snapshots, seeded, retry>>

\* faulty variant: a failed chunk is retried without end
Pending_Unbounded ==
  {i \in DOMAIN session.chunks : session.chunks[i].status \in {"pending", "error"}}

\* faulty variant: a failed chunk is never sent again
Pending_NoRetry ==
  {i \in DOMAIN session.chunks : session.chunks[i].status = "pending"}

\* c.status === "pending" || (c.status === "error" && c.retries < MAX_RETRIES)
Pending ==
  {i \in DOMAIN session.chunks :
     \/ session.chunks[i].status = "pending"
     \/ session.chunks[i].status = "error" /\ session.chunks[i].retries < MAX_RETRIES}

\* faulty variant: the chunks in flight count as done
SuccessCount_Sent ==
  Cardinality({i \in DOMAIN session.chunks :
                 session.chunks[i].status \in {"success", "uploading"}})

SuccessCount ==
  Cardinality({i \in DOMAIN session.chunks : session.chunks[i].status = "success"})

\* pending.slice(0, slots): the first k indices of S in ascending order
RECURSIVE FirstK(_, _)
FirstK(S, k) ==
  IF k <= 0 \/ S = {}
    THEN {}
    ELSE LET m == CHOOSE x \in S : \A y \in S : x <= y
         IN  {m} \cup FirstK(S \ {m}, k - 1)

\* faulty variant: the queue runs while the upload is paused
QueueRuns_Paused == isUploading /\ session # NoSession

\* if (isUploading && !isPaused) processUploadQueue(), which returns at once
\* without a session
QueueRuns == isUploading /\ ~isPaused /\ session # NoSession

\* the effect runs and nothing is to be done: isUploading is false, the upload
\* is paused or there is no session
processUploadQueueReturn ==
  /\ effectDue /\ ~QueueRuns
  /\ effectDue' = FALSE
  /\ UNCHANGED <<serverVars, file, now, issued, session, active, isUploading,
                 isPaused, handshake, dispatched, netFaults, starts, inflight,
                 sends, owner, finalizing, finalizes, blob, snapshots, seeded, retry>>

\* the effect runs processUploadQueue, which finds every chunk "success", sets
\* the status "processing" and calls finalizeUpload
processUploadQueueFinalize ==
  /\ effectDue /\ QueueRuns
  /\ SuccessCount = session.totalChunks
  /\ finalizing < MaxFinalizes
  /\ session' = [session EXCEPT !.status = "processing"]
  /\ finalizing' = finalizing + 1
  /\ finalizes' = finalizes + 1
  /\ effectDue' = FALSE
  /\ UNCHANGED <<serverVars, file, now, issued, active, isUploading, isPaused,
                 handshake, dispatched, netFaults, starts, inflight, sends,
                 owner, blob, snapshots, seeded, retry>>

\* the await of finalizeUpload ends: the status becomes "completed" (and
\* onComplete is called) or "failed" (and onError is called); then
\* setIsUploading(false)
finalizeUploadSettled(ok) ==
  /\ finalizing > 0
  /\ finalizing' = finalizing - 1
  /\ session' = IF session = NoSession THEN session
                ELSE [session EXCEPT !.status = IF ok THEN "completed" ELSE "failed"]
  /\ isUploading' = FALSE
  /\ effectDue' = (effectDue \/ isUploading)
  /\ UNCHANGED <<serverVars, file, now, issued, active, isPaused, handshake,
                 dispatched, netFaults, starts, inflight, sends, owner,
                 finalizes, blob, snapshots, seeded, retry>>

\* faulty variant: the requests in flight are not counted
slots_Ignoring == MAX_CONCURRENT_UPLOADS

\* const slots = MAX_CONCURRENT_UPLOADS - activeUploadsRef.current.size
slots == MAX_CONCURRENT_UPLOADS - Cardinality(active)

\* the effect runs processUploadQueue, which calls uploadSingleChunk for the
\* first free slots' worth of pending chunks: each one that is not active
\* already becomes active and "uploading", and uploadChunk is called for it
processUploadQueue ==
  /\ effectDue /\ QueueRuns
  /\ SuccessCount # session.totalChunks
  /\ LET start == FirstK(Pending, slots) \ active
     IN  /\ active' = active \cup start
         /\ dispatched' = dispatched \cup start
         /\ inflight' = [i \in DOMAIN inflight |->
                           IF i \in start THEN inflight[i] + 1 ELSE inflight[i]]
         /\ sends' = [i \in DOMAIN sends |->
                        IF i \in start THEN sends[i] + 1 ELSE sends[i]]
         /\ owner' = [i \in DOMAIN owner |->
                        IF i \in start THEN session.uploadId ELSE owner[i]]
         /\ session' = [session EXCEPT !.chunks =
                          [i \in DOMAIN session.chunks |->
                             IF i \in start
                               THEN [session.chunks[i] EXCEPT !.status = "uploading"]
                               ELSE session.chunks[i]]]
         /\ effectDue' = (start # {})
  /\ UNCHANGED <<serverVars, file, now, issued, isUploading, isPaused, handshake,
                 netFaults, starts, finalizing, finalizes, blob, snapshots, seeded, retry>>

\* the await of uploadChunk in uploadSingleChunk ends: the chunk becomes
\* "success", or "error" with one more retry; finally it leaves the active set
uploadSingleChunkDone(i, ok) ==
  /\ inflight[i] > 0
  /\ netFaults' = IF ok THEN netFaults ELSE netFaults + 1
  /\ inflight' = [inflight EXCEPT ![i] = @ - 1]
  /\ owner' = [owner EXCEPT ![i] = <<>>]
  /\ active' = active \ {i}
  /\ IF session # NoSession /\ i \in DOMAIN session.chunks
       THEN session' = [session EXCEPT !.chunks[i] =
                          IF ok THEN [@ EXCEPT !.status = "success"]
                                ELSE [status |-> "error", retries |-> @.retries + 1]]
       ELSE UNCHANGED session
  /\ effectDue' = (effectDue \/ session # NoSession)
  /\ UNCHANGED <<serverVars, file, now, issued, isUploading, isPaused, handshake,
                 dispatched, starts, sends, finalizing, finalizes, blob, snapshots, seeded, retry>>

\* pauseUpload: () => setIsPaused(true)
pauseUpload ==
  /\ session # NoSession /\ ~isPaused
  /\ isPaused' = TRUE
  /\ effectDue' = TRUE
  /\ UNCHANGED <<serverVars, file, now, issued, session, active, isUploading,
                 handshake, dispatched, netFaults, starts, inflight, sends,
                 owner, finalizing, finalizes, blob, snapshots, seeded, retry>>

\* resumeUpload: () => setIsPaused(false)
resumeUpload ==
  /\ session # NoSession /\ isPaused
  /\ isPaused' = FALSE
  /\ effectDue' = TRUE
  /\ UNCHANGED <<serverVars, file, now, issued, session, active, isUploading,
                 handshake, dispatched, netFaults, starts, inflight, sends,
                 owner, finalizing, finalizes, blob, snapshots, seeded, retry>>

\* cancelUpload: () => setSession(null)
cancelUpload ==
  /\ session # NoSession
  /\ session' = NoSession
  /\ effectDue' = TRUE
  /\ UNCHANGED <<serverVars, file, now, issued, active, isUploading, isPaused,
                 handshake, dispatched, netFaults, starts, inflight, sends,
                 owner, finalizing, finalizes, blob, snapshots, seeded, retry>>

\* ------------------------------------------------------- specification
ServerInit ==
  /\ srcN \in 1..MaxChunks
  /\ uploads = {}
  /\ chunks = {}
  /\ nextDbId = 1
  /\ locked = {}
  /\ temp = [u \in UploadIds |-> NoFile]
  /\ final = [u \in UploadIds |-> NoFile]
  /\ reqs = [r \in Slots |-> Idle]
  /\ resp = NoResp
  /\ sweep = SweepIdle
  /\ faults = 0
  /\ swept = {}
  /\ runs = [d \in DbIds |-> 0]
  /\ spared = {}
  /\ touched = {}
  /\ overrun = SweepIdle
  /\ peek = NoPeek

\* the hook after its first render
HookInit ==
  /\ now = 0
  /\ issued = {}
  /\ session = NoSession
  /\ active = {}
  /\ isUploading = FALSE
  /\ isPaused = FALSE
  /\ handshake = NoHandshake
  /\ dispatched = {}
  /\ netFaults = 0
  /\ inflight = NoCalls
  /\ sends = NoCalls
  /\ starts = 0
  /\ effectDue = FALSE
  /\ owner = [i \in Indices(MaxFileChunks) |-> <<>>]
  /\ finalizing = 0
  /\ finalizes = 0
  /\ blob = NoBlob
  /\ snapshots = [a |-> NoSnapshot, b |-> NoSnapshot]
  /\ seeded = NoSeed
  /\ retry = NoRetry

\* no client: no file is selected
NoClient == file = NoFileRef /\ HookInit

\* the hook after its first render, the user's file selected
ClientInit == file \in Files /\ HookInit

ClientNext ==
  \/ \E ok \in BOOLEAN :
       \E R \in SUBSET Indices(calculateTotalChunks(file.size)) : startUpload(file, ok, R)
  \/ processUploadQueueReturn
  \/ processUploadQueueFinalize
  \/ \E ok \in BOOLEAN : finalizeUploadSettled(ok)
  \/ processUploadQueue
  \/ \E i \in Indices(MaxFileChunks), ok \in BOOLEAN :
       (ok \/ netFaults < MaxNetFaults) /\ uploadSingleChunkDone(i, ok)
  \/ pauseUpload
  \/ resumeUpload
  \/ cancelUpload

IdNext == GenerateUploadId \/ Tick

UploadNext ==
  \/ \E r \in Slots, u \in OneUpload : InitSelect(r, u)
  \/ \E r \in Slots : InitExisting(r)
  \/ \E r \in Slots : InitInsertUpload(r)
  \/ \E r \in Slots : InitInsertChunks(r)
  \/ \E r \in Slots : InitOpen(r)
  \/ \E r \in Slots : InitTruncate(r)
  \/ \E r \in Slots, u \in OneUpload, i \in 0..(MaxChunks - 1) : ChunkSelectUpload(r, u, i, "exact")
  \/ \E r \in Slots : ChunkCheck(r)
  \/ \E r \in Slots : ChunkOpen(r)
  \/ \E r \in Slots, o \in WriteOutcomes : ChunkWrite(r, o)
  \/ \E r \in Slots : ChunkUpdate(r)
  \/ \E r \in Slots, u \in OneUpload : FinSelect(r, u)
  \/ \E r \in Slots : FinCount(r)
  \/ \E r \in Slots, f \in BOOLEAN : FinHash(r, f)
  \/ \E r \in Slots, f \in BOOLEAN : FinRename(r, f)
  \/ \E r \in Slots, f \in BOOLEAN : FinComplete(r, f)
  \/ \E r \in Slots, f \in BOOLEAN : FinMarkFailed(r, f)

\* the handlers when no I/O operation fails
SoundNext ==
  \/ \E r \in Slots, u \in OneUpload : InitSelect(r, u)
  \/ \E r \in Slots : InitExisting(r)
  \/ \E r \in Slots : InitInsertUpload(r)
  \/ \E r \in Slots : InitInsertChunks(r)
  \/ \E r \in Slots : InitOpen(r)
  \/ \E r \in Slots : InitTruncate(r)
  \/ \E r \in Slots, u \in OneUpload, i \in 0..(MaxChunks - 1) : ChunkSelectUpload(r, u, i, "exact")
  \/ \E r \in Slots : ChunkCheck(r)
  \/ \E r \in Slots : ChunkOpen(r)
  \/ \E r \in Slots : ChunkWrite(r, "full")
  \/ \E r \in Slots : ChunkUpdate(r)
  \/ \E r \in Slots, u \in OneUpload : FinSelect(r, u)
  \/ \E r \in Slots : FinCount(r)
  \/ \E r \in Slots : FinHash(r, FALSE)
  \/ \E r \in Slots : FinRename(r, FALSE)
  \/ \E r \in Slots : FinComplete(r, FALSE)
  \/ \E r \in Slots : FinMarkFailed(r, FALSE)

SweepNext ==
  \/ SoundNext
  \/ SweepSelect
  \/ SweepUnlink
  \/ SweepDeleteChunks
  \/ SweepDeleteUpload
  \/ TimePasses

\* two sessions, their handshakes and chunk uploads, the sweep and the passing
\* of time
ReclaimNext ==
  \/ \E r \in Slots, u \in UploadIds : InitSelect(r, u)
  \/ \E r \in Slots : InitExisting(r)
  \/ \E r \in Slots : InitInsertUpload(r)
  \/ \E r \in Slots : InitInsertChunks(r)
  \/ \E r \in Slots : InitOpen(r)
  \/ \E r \in Slots : InitTruncate(r)
  \/ \E r \in Slots, u \in UploadIds, i \in 0..(MaxChunks - 1) : ChunkSelectUpload(r, u, i, "exact")
  \/ \E r \in Slots : ChunkCheck(r)
  \/ \E r \in Slots : ChunkOpen(r)
  \/ \E r \in Slots : ChunkWrite(r, "full")
  \/ \E r \in Slots : ChunkUpdate(r)
  \/ SweepSelect
  \/ SweepUnlink
  \/ SweepDeleteChunks
  \/ SweepDeleteUpload
  \/ TimePasses

ReclaimInit == ServerInit /\ srcN = 1 /\ NoClient
SpecReclaim == ReclaimInit /\ [][ReclaimNext]_vars

\* one session, its handshake and chunk uploads, the sweep, and the hourly
\* timer firing while a run is in progress
TimerNext ==
  \/ \E r \in Slots, u \in OneUpload : InitSelect(r, u)
  \/ \E r \in Slots : InitExisting(r)
  \/ \E r \in Slots : InitInsertUpload(r)
  \/ \E r \in Slots : InitInsertChunks(r)
  \/ \E r \in Slots : InitOpen(r)
  \/ \E r \in Slots : InitTruncate(r)
  \/ \E r \in Slots, u \in OneUpload, i \in 0..(MaxChunks - 1) : ChunkSelectUpload(r, u, i, "exact")
  \/ \E r \in Slots : ChunkCheck(r)
  \/ \E r \in Slots : ChunkOpen(r)
  \/ \E r \in Slots : ChunkWrite(r, "full")
  \/ \E r \in Slots : ChunkUpdate(r)
  \/ SweepSelect
  \/ SweepUnlink
  \/ SweepDeleteChunks
  \/ SweepDeleteUpload
  \/ TimePasses
  \/ OverrunSelect
  \/ OverrunUnlink
  \/ OverrunDeleteChunks
  \/ OverrunDeleteUpload

TimerInit == ServerInit /\ srcN = 1 /\ NoClient
SpecTimer == TimerInit /\ [][TimerNext]_vars

\* the handlers when no I/O operation fails and a chunk request carries a
\* buffer of any length
LengthNext ==
  \/ \E r \in Slots, u \in OneUpload : InitSelect(r, u)
  \/ \E r \in Slots : InitExisting(r)
  \/ \E r \in Slots : InitInsertUpload(r)
  \/ \E r \in Slots : InitInsertChunks(r)
  \/ \E r \in Slots : InitOpen(r)
  \/ \E r \in Slots : InitTruncate(r)
  \/ \E r \in Slots, u \in OneUpload, i \in 0..(MaxChunks - 1), len \in ChunkLengths :
       ChunkSelectUpload(r, u, i, len)
  \/ \E r \in Slots : ChunkCheck(r)
  \/ \E r \in Slots : ChunkOpen(r)
  \/ \E r \in Slots : ChunkWrite(r, "full")
  \/ \E r \in Slots : ChunkUpdate(r)
  \/ \E r \in Slots, u \in OneUpload : FinSelect(r, u)
  \/ \E r \in Slots : FinCount(r)
  \/ \E r \in Slots : FinHash(r, FALSE)
  \/ \E r \in Slots : FinRename(r, FALSE)
  \/ \E r \in Slots : FinComplete(r, FALSE)
  \/ \E r \in Slots : FinMarkFailed(r, FALSE)

\* the handshake and chunk uploads whose index may lie past the last chunk of
\* the session
IndexNext ==
  \/ \E r \in Slots, u \in OneUpload : InitSelect(r, u)
  \/ \E r \in Slots : InitExisting(r)
  \/ \E r \in Slots : InitInsertUpload(r)
  \/ \E r \in Slots : InitInsertChunks(r)
  \/ \E r \in Slots : InitOpen(r)
  \/ \E r \in Slots : InitTruncate(r)
  \/ \E r \in Slots, u \in OneUpload, i \in 0..MaxChunks :
       ChunkSelectUploadAny(r, u, i, "exact")
  \/ \E r \in Slots : ChunkCheck(r)
  \/ \E r \in Slots : ChunkOpen(r)
  \/ \E r \in Slots : ChunkWrite(r, "full")
  \/ \E r \in Slots : ChunkUpdate(r)

IndexInit == ServerInit /\ NoClient
SpecIndex == IndexInit /\ [][IndexNext]_vars

\* the handlers with I/O failures, and status queries
StatusNext ==
  \/ UploadNext
  \/ \E r \in Slots, u \in OneUpload : StatusSelect(r, u)
  \/ \E r \in Slots : StatusRespond(r)

StatusInit == ServerInit /\ srcN = 1 /\ NoClient
SpecStatus == StatusInit /\ [][StatusNext]_vars

LengthInit == ServerInit /\ NoClient
SpecLength == LengthInit /\ [][LengthNext]_vars

\* the handlers, the sweep and the passing of time, while no I/O operation fails
SweepInit == ServerInit /\ NoClient
SpecSweep == SweepInit /\ [][SweepNext]_vars

\* the handlers, with the I/O failures the environment injects
UploadInit == ServerInit /\ NoClient
SpecUpload == UploadInit /\ [][UploadNext]_vars

\* a step of the handler in request slot r after its first statement
Continue(r) ==
  \/ InitExisting(r)
  \/ InitInsertUpload(r)
  \/ InitInsertChunks(r)
  \/ InitOpen(r)
  \/ InitTruncate(r)
  \/ ChunkCheck(r)
  \/ ChunkOpen(r)
  \/ ChunkWrite(r, "full")
  \/ ChunkUpdate(r)
  \/ FinCount(r)
  \/ \E f \in BOOLEAN : FinHash(r, f)
  \/ \E f \in BOOLEAN : FinRename(r, f)
  \/ \E f \in BOOLEAN : FinComplete(r, f)
  \/ \E f \in BOOLEAN : FinMarkFailed(r, f)

\* a step of cleanupOrphanedUploads: the timer fires, or the run goes on
SweepStep == SweepSelect \/ SweepUnlink \/ SweepDeleteChunks \/ SweepDeleteUpload

LiveNext ==
  \/ \E r \in Slots, u \in OneUpload : InitSelect(r, u)
  \/ \E r \in Slots, u \in OneUpload, i \in 0..(MaxChunks - 1) : ChunkSelectUpload(r, u, i, "exact")
  \/ \E r \in Slots, u \in OneUpload : FinSelect(r, u)
  \/ \E r \in Slots : Continue(r)
  \/ SweepStep
  \/ TimePasses

\* the handlers with I/O failures, the sweep and the passing of time; the event
\* loop runs every continuation that is ready, and setInterval fires the
\* sweep every hour
LiveInit == ServerInit /\ srcN = 1 /\ NoClient
SpecLive ==
  /\ LiveInit /\ [][LiveNext]_vars
  /\ \A r \in Slots : WF_vars(Continue(r))
  /\ WF_vars(SweepStep)

\* the server process stops while a finalize pipeline is hashing, inspecting or
\* renaming, and is started again: the handlers and the sweep that were running
\* are gone and get no answer, MySQL rolls back the transactions of the closed
\* connections, the rows and the files stay as they are; the start-up code
\* (ensureDirectories, app.listen, setInterval) reads no row of uploads
ProcessRestarts ==
  /\ \E r \in Slots : reqs[r].kind = "finalize" /\ reqs[r].pc \in {"hash", "rename", "complete"}
  /\ reqs' = [r \in Slots |-> Idle]
  /\ locked' = {}
  /\ sweep' = SweepIdle
  /\ overrun' = SweepIdle
  /\ UNCHANGED <<clientVars, peek, srcN, uploads, chunks, nextDbId, temp, final, resp,
                 faults, swept, runs, spared, touched>>

\* a step of the handler in request slot r after its first statement, when no
\* I/O operation fails
ContinueSound(r) ==
  \/ InitExisting(r)
  \/ InitInsertUpload(r)
  \/ InitInsertChunks(r)
  \/ InitOpen(r)
  \/ InitTruncate(r)
  \/ ChunkCheck(r)
  \/ ChunkOpen(r)
  \/ ChunkWrite(r, "full")
  \/ ChunkUpdate(r)
  \/ FinCount(r)
  \/ FinHash(r, FALSE)
  \/ FinRename(r, FALSE)
  \/ FinComplete(r, FALSE)
  \/ FinMarkFailed(r, FALSE)

CrashNext ==
  \/ \E r \in Slots, u \in OneUpload : InitSelect(r, u)
  \/ \E r \in Slots, u \in OneUpload, i \in 0..(MaxChunks - 1) : ChunkSelectUpload(r, u, i, "exact")
  \/ \E r \in Slots, u \in OneUpload : FinSelect(r, u)
  \/ \E r \in Slots : ContinueSound(r)
  \/ SweepStep
  \/ TimePasses
  \/ ProcessRestarts

\* the handlers without I/O failures, the sweep, the passing of time and the
\* process stopping and starting again; while the process runs, the event
\* loop runs every continuation that is ready and setInterval fires the sweep
CrashInit == ServerInit /\ srcN = 1 /\ NoClient
SpecCrash ==
  /\ CrashInit /\ [][CrashNext]_vars
  /\ \A r \in Slots : WF_vars(ContinueSound(r))
  /\ WF_vars(SweepStep)

\* peekZipContents called on a file that is no ZIP or on an archive of up to
\* MaxArchive entries, with maxEntries from 0 to MaxArchive
PeekNext ==
  \/ \E isZip \in BOOLEAN, zip \in Archives, maxEntries \in 0..MaxArchive :
       PeekCall(isZip, zip, maxEntries)
  \/ PeekOpened
  \/ PeekEntry
  \/ PeekEnd
  \/ PeekError

PeekInit == ServerInit /\ srcN = 1 /\ NoClient
SpecPeek == PeekInit /\ [][PeekNext]_vars

\* the client alone: the server stays as it starts, its answers are inputs
SchedulerInit ==
  /\ ServerInit /\ srcN = 1
  /\ ClientInit /\ file.lastModified = 1 /\ file.name = <<"a", ".", "z", "i", "p">>
SpecClient == SchedulerInit /\ [][ClientNext]_vars

\* the client while the clock advances: a file of one or two chunks, uploads
\* started, cancelled and started again at a later time
RestartNext == ClientNext \/ Tick
RestartInit == SchedulerInit /\ file.size \in {1, CHUNK_SIZE + 1}
SpecRestart == RestartInit /\ [][RestartNext]_vars

\* the client with a file of one or two chunks, and enough failing chunk
\* uploads to use up the retries of a chunk
RetryNext ==
  \/ \E ok \in BOOLEAN :
       \E R \in SUBSET Indices(calculateTotalChunks(file.size)) : startUpload(file, ok, R)
  \/ processUploadQueueReturn
  \/ processUploadQueueFinalize
  \/ \E ok \in BOOLEAN : finalizeUploadSettled(ok)
  \/ processUploadQueue
  \/ \E i \in Indices(MaxFileChunks), ok \in BOOLEAN :
       (ok \/ netFaults < MaxRetryFaults) /\ uploadSingleChunkDone(i, ok)
  \/ pauseUpload
  \/ resumeUpload
  \/ cancelUpload

RetryInit ==
  /\ SchedulerInit
  /\ file.size \in {1, CHUNK_SIZE + 1}
SpecRetry == RetryInit /\ [][RetryNext]_vars

\* the client left to run: React runs the effect whenever a dependency has
\* changed, and every request that was sent settles, with success or with an
\* error.  The user may pause and resume at any time.
Effect ==
  \/ processUploadQueueReturn
  \/ processUploadQueueFinalize
  \/ processUploadQueue

ChunkSettles ==
  \E i \in Indices(MaxFileChunks), ok \in BOOLEAN :
    (ok \/ netFaults < MaxRetryFaults) /\ uploadSingleChunkDone(i, ok)

FinalizeSettles == \E ok \in BOOLEAN : finalizeUploadSettled(ok)

ScheduleNext ==
  \/ \E ok \in BOOLEAN, R \in {{}, {0}} : startUpload(file, ok, R)
  \/ Effect
  \/ ChunkSettles
  \/ FinalizeSettles
  \/ pauseUpload
  \/ resumeUpload

ScheduleInit ==
  /\ SchedulerInit
  /\ file.size \in {1, CHUNK_SIZE + 1, MaxFileChunks * CHUNK_SIZE}
SpecSchedule ==
  /\ ScheduleInit /\ [][ScheduleNext]_vars
  /\ WF_vars(Effect) /\ WF_vars(ChunkSettles) /\ WF_vars(FinalizeSettles)

\* the chunks of a file: extractChunk called for the indices of files whose
\* sizes lie at and around the multiples of CHUNK_SIZE
Remainders == {1, 2, 3, 2097152, CHUNK_SIZE - 1, CHUNK_SIZE}
LayoutSizes ==
  {k * CHUNK_SIZE + d : k \in 0..(MaxLayoutChunks - 1), d \in Remainders}
LayoutNext == \E i \in Indices(MaxLayoutChunks) : ExtractChunk(i)
LayoutInit ==
  /\ ServerInit /\ srcN = 1
  /\ file \in [name : {<<"a", ".", "z", "i", "p">>}, size : LayoutSizes,
               lastModified : {1}]
  /\ HookInit
SpecLayout == LayoutInit /\ [][LayoutNext]_vars

\* generateUploadId called again and again for one file
\* calls of withRetry with a retry budget of 0 to MaxBudget and the default
\* base delay or a shorter one; fn fails or succeeds at every call
BackoffNext ==
  \/ \E n \in 0..MaxBudget, d \in {BASE_RETRY_DELAY, 100} : withRetry(n, d)
  \/ \E ok \in BOOLEAN : withRetryAttempt(ok)
  \/ \E j \in Jitters : withRetryWait(j)
  \/ withRetryThrow

BackoffInit == ServerInit /\ srcN = 1 /\ NoClient
SpecBackoff == BackoffInit /\ [][BackoffNext]_vars

\* two browsers hold different snapshots for the file and start its upload,
\* with the resumable startUpload and with the one the page imports
SeedNext ==
  \/ \E ok \in BOOLEAN :
       \E R \in SUBSET Indices(calculateTotalChunks(file.size)) :
         ResumableStartUpload(ok, R)
  \/ \E ok \in BOOLEAN :
       \E R \in SUBSET Indices(calculateTotalChunks(file.size)) :
         seeded = NoSeed /\ startUpload(file, ok, R)

SeedInit ==
  /\ ServerInit /\ srcN = 1
  /\ file \in Files /\ file.lastModified = 1 /\ file.name = <<"a", ".", "z", "i", "p">>
  /\ file.size \in {1, CHUNK_SIZE + 1, 2 * CHUNK_SIZE + 1}
  /\ now = 0 /\ issued = {} /\ session = NoSession /\ active = {}
  /\ isUploading = FALSE /\ isPaused = FALSE /\ handshake = NoHandshake
  /\ dispatched = {} /\ netFaults = 0 /\ inflight = NoCalls /\ sends = NoCalls
  /\ starts = 0 /\ effectDue = FALSE
  /\ owner = [i \in Indices(MaxFileChunks) |-> <<>>]
  /\ finalizing = 0 /\ finalizes = 0 /\ blob = NoBlob
  /\ snapshots \in [a : Snapshots(calculateTotalChunks(file.size)),
                     b : Snapshots(calculateTotalChunks(file.size))]
  /\ seeded = NoSeed
  /\ retry = NoRetry
SpecSeed == SeedInit /\ [][SeedNext]_vars

IdInit == ServerInit /\ srcN = 1 /\ ClientInit
SpecId == IdInit /\ [][IdNext]_vars

\* =====================================================================
\* Properties
\* =====================================================================
Pipeline == {"hash", "rename", "complete", "mark_failed"}

InPipeline(db) ==
  {r \in Slots : reqs[r].kind = "finalize" /\ reqs[r].pc \in Pipeline /\ reqs[r].db = db}

\* the file that holds the bytes of session u: the temp file, or once it was
\* renamed the published file
SessionFile(u) == IF temp[u].exists THEN temp[u] ELSE final[u]

\* C1: while no I/O operation fails, of the finalize requests that find every
\* chunk record of a session RECEIVED at most one starts the pipeline (hash,
\* inspection, rename), no two requests are in the pipeline of a session at the
\* same time, and every such request is answered 409, or 200 with the hash and
\* the listing that the session's row stores as COMPLETED.
C1_AtMostOneFinalize ==
  faults = 0 =>
    \A db \in DbIds :
      /\ runs[db] <= 1
      /\ Cardinality(InPipeline(db)) <= 1
      /\ (resp.kind = "finalize" /\ resp.pre /\ resp.db = db) =>
           /\ resp.code \in {200, 409}
           /\ resp.code = 200 =>
                \E x \in uploads :
                  /\ x.id = db /\ x.status = "COMPLETED"
                  /\ x.final_hash = resp.hash /\ x.zip_contents = resp.zipContents

\* a request was answered 409 while the winner, which found every chunk
\* RECEIVED, is in the pipeline
C1_Witness ==
  /\ faults = 0
  /\ resp.kind = "finalize" /\ resp.pre /\ resp.code = 409
  /\ runs[resp.db] = 1
  /\ \E r \in InPipeline(resp.db) : reqs[r].pre

\* C2: a step moves a session's status to PROCESSING only when a chunk record
\* exists for every index in [0, total_chunks) and every one is RECEIVED.
C2_ProcessingOnlyWhenAllReceived ==
  [][\A x \in uploads : \A y \in uploads' :
       (y.id = x.id /\ x.status # "PROCESSING" /\ y.status = "PROCESSING")
         => AllReceived(x.id, x.total_chunks)]_vars

\* C3: once a session is COMPLETED the published file equals the client's
\* source file and the stored final_hash is the digest of the source bytes.
C3_PublishedEqualsSource ==
  \A x \in uploads :
    x.status = "COMPLETED" =>
      /\ final[x.upload_id] = File(SrcFile(srcN))
      /\ x.final_hash = calculateFileHash(SrcFile(srcN))

C4_State ==
  faults = 0 =>
    /\ \A u \in UploadIds :
         /\ \A k \in 1..Len(temp[u].data) : temp[u].data[k] \in {0, Src(k - 1)}
         /\ \A k \in 1..Len(final[u].data) : final[u].data[k] \in {0, Src(k - 1)}
    /\ \A c \in chunks : \A x \in uploads :
         (c.upload_id = x.id /\ c.status = "RECEIVED" /\ SessionFile(x.upload_id).exists)
           => /\ Len(SessionFile(x.upload_id).data) > c.chunk_index
              /\ SessionFile(x.upload_id).data[c.chunk_index + 1] = Src(c.chunk_index)
    /\ (resp.kind = "chunk" /\ resp.pre /\ resp.code # 200)
         => resp.code = 500 /\ resp.message = "ENOENT"

C4_Step ==
  /\ \A c \in chunks : \A d \in chunks' :
       (d.upload_id = c.upload_id /\ d.chunk_index = c.chunk_index
          /\ c.status = "RECEIVED") => d.status = "RECEIVED"
  /\ \A r \in Slots :
       (reqs[r].kind = "chunk" /\ reqs'[r].kind = "idle" /\ resp'.code = 500
          /\ resp'.message = "ENOENT")
         => /\ ~temp[reqs[r].u].exists
            /\ UNCHANGED <<uploads, chunks, temp, final>>

C5_ReceivedOnlyAfterFullWrite ==
  \A c \in chunks : \A x \in uploads :
    (c.upload_id = x.id /\ c.status = "RECEIVED" /\ SessionFile(x.upload_id).exists)
      => /\ Len(SessionFile(x.upload_id).data) > c.chunk_index
         /\ SessionFile(x.upload_id).data[c.chunk_index + 1] = Src(c.chunk_index)

\* C6: a handshake on an existing session answers with exactly the indices
\* whose chunk record is RECEIVED, and changes no record and no file.
C6_RehandshakeReportsLedger ==
  [][(resp' # resp /\ resp'.kind = "init" /\ resp'.code = 200 /\ resp'.db # 0)
       => /\ resp'.uploadedChunks = ReceivedIndices(resp'.db)
          /\ UNCHANGED <<uploads, chunks, temp, final>>]_vars

C7_State ==
  \A u \in UploadIds :
    /\ Cardinality(RowsOf(u)) <= 1
    /\ \A x \in RowsOf(u) : \A i \in 0..(x.total_chunks - 1) :
         /\ Cardinality({c \in ChunkRows(x.id) : c.chunk_index = i}) <= 1
         /\ (\A r \in Slots : ~(reqs[r].kind = "init" /\ reqs[r].pc = "insert_chunks"
                                  /\ reqs[r].db = x.id))
              => Cardinality({c \in ChunkRows(x.id) : c.chunk_index = i}) = 1

C7_Step ==
  \A u \in UploadIds : \A k \in 1..Len(temp[u].data) :
    temp[u].data[k] # 0 =>
      \/ /\ temp'[u].exists
         /\ Len(temp'[u].data) >= k
         /\ temp'[u].data[k] # 0
      \/ /\ ~temp'[u].exists
         /\ final'[u] = temp[u]

\* C7: whatever the handshakes of one uploadId do concurrently, there is at
\* most one session record for it and at most one chunk record per index
\* (exactly one once the handshake that created the session has inserted its
\* chunk records), and no step erases bytes that a chunk upload wrote into the
\* temp file: they stay at their offset, or the file is renamed as it is.
C7_OneSessionNoErase == [](C7_State) /\ [][C7_Step]_vars

\* the handshake that lost the race was refused after a chunk upload had
\* already written into the winner's temp file
C7_Witness ==
  /\ resp.kind = "init" /\ resp.code = 500
  /\ \E u \in UploadIds :
       /\ Cardinality(RowsOf(u)) = 1
       /\ temp[u].exists
       /\ \E k \in 1..Len(temp[u].data) : temp[u].data[k] # 0

\* C8: the scheduler seeds its per-chunk state from the handshake response:
\* every index the server reported as received starts as success and is never
\* dispatched, so only indices outside that set are uploaded.
C8_SeedsFromHandshake ==
  (session # NoSession /\ handshake.ok) =>
    /\ dispatched \cap handshake.uploadedChunks = {}
    /\ \A i \in handshake.uploadedChunks : session.chunks[i].status = "success"

\* C9: generateUploadId is a function of (filename, size, lastModified) only:
\* all the ids it returns for one file are the same id.
C9_IdFunctionOfFile == Cardinality(issued) <= 1

\* C10 as stated: no step deletes the record of a COMPLETED session.
C10_CompletedNeverDeleted ==
  [][\A x \in uploads :
       x.status = "COMPLETED" => \E y \in uploads' : y.id = x.id]_vars

\* C10 (amended): a sweep run never selects a session that is COMPLETED when
\* the run makes its selection, whatever the session's age, and the record of
\* a COMPLETED session is deleted only by a run that selected the session while
\* it was still UPLOADING or FAILED (it was finalized between the run's
\* selection and the run's deletes).
C10_CompletedNotSelected ==
  [][/\ \A x \in uploads : x.id \in (swept' \ swept) => x.status # "COMPLETED"
     /\ \A x \in uploads :
          (x.status = "COMPLETED" /\ ~(\E y \in uploads' : y.id = x.id))
            => x.id \in swept]_vars

\* a sweep run made its selection while a COMPLETED session was older than the
\* limit, and passed it over
C10_Witness ==
  \E x \in uploads :
    /\ x.status = "COMPLETED" /\ x.stale
    /\ x.id \in spared /\ x.id \notin swept

\* the step that ends a sweep run
C11_RunEnds == sweep.pc # "idle" /\ sweep'.pc = "idle"

\* the selected sessions are gone: record, chunk records and temp file.  A
\* handshake that arrives after the run deleted a session creates a new
\* session under the same upload_id (a new row, a new file at the same path):
\* a file at the path then belongs to that session
C11_Reclaimed ==
  \A o \in sweep.sel :
    o.status = "UPLOADING" =>
      /\ \A x \in uploads' : x.id # o.id
      /\ \A c \in chunks' : c.upload_id # o.id
      /\ \/ temp'[o.upload_id] = NoFile
         \/ \E x \in uploads' :
              /\ x.upload_id = o.upload_id
              /\ x.id \notin {s.id : s \in sweep.sel}

\* a step of the run
C11_SweepStep == sweep.pc # "idle" /\ sweep' # sweep

\* a step of the run leaves the sessions it did not select as they are
C11_Frame ==
  LET ids  == {o.id : o \in sweep.sel}
      uids == {o.upload_id : o \in sweep.sel}
  IN  /\ \A x \in uploads :
           x.id \notin ids =>
             x \in uploads' /\ temp'[x.upload_id] = temp[x.upload_id]
      /\ \A c \in chunks : c.upload_id \notin ids => c \in chunks'
      /\ \A u \in UploadIds : u \notin uids => temp'[u] = temp[u]
      /\ final' = final

\* C11: when a sweep run ends, every session it selected as UPLOADING and past
\* the age threshold has no session record, no chunk records and no temp
\* file; and no step of the run touches a session the run did not select
C11_SweepReclaimsSelected ==
  [][(C11_RunEnds => C11_Reclaimed) /\ (C11_SweepStep => C11_Frame)]_vars

\* a run has unlinked the temp file of a session it selected as UPLOADING and
\* is about to delete its record, while a session it did not select has its
\* record and its temp file
C11_Witness ==
  /\ sweep.pc = "del_upload"
  /\ \E o \in sweep.sel :
       /\ o.status = "UPLOADING" /\ o.upload_id = sweep.cur
       /\ temp[o.upload_id] = NoFile
  /\ \E x \in uploads :
       /\ x.id \notin {o.id : o \in sweep.sel}
       /\ temp[x.upload_id].exists

\* session d is past the age threshold in one of the three statuses; a
\* PROCESSING session counts once a finalize that found every chunk RECEIVED
\* has taken it
C12_Idle(d) ==
  \E x \in uploads :
    /\ x.id = d /\ x.stale
    /\ \/ x.status \in {"UPLOADING", "FAILED"}
       \/ /\ x.status = "PROCESSING"
          /\ runs[x.id] > 0 /\ AllReceived(x.id, x.total_chunks)

\* the same for the statuses the selection names (holds under SpecLive)
C12_IdleSel(d) ==
  \E x \in uploads : x.id = d /\ x.stale /\ x.status \in {"UPLOADING", "FAILED"}

C12_SelectedStatusesReclaimed == \A d \in DbIds : C12_IdleSel(d) ~> ~C12_IdleSel(d)

\* C12: every session idle past the age threshold in status UPLOADING,
\* PROCESSING or FAILED is eventually reclaimed by the periodic sweep (or has
\* stopped being idle: a request touched it or completed it)
C12_IdleEventuallyReclaimed ==
  \A d \in DbIds : C12_Idle(d) ~> ~C12_Idle(d)

\* a finalize request is answered from the status it reads (COMPLETED: the
\* stored result, PROCESSING: 409) before it counts: a session with a chunk
\* record not RECEIVED is neither
C13_NoEarlyAnswer ==
  \A x \in uploads :
    CountPending(x.id) > 0 => ~InFlight(x) /\ x.status # "COMPLETED"

\* the count step of a finalize that finds such a record answers 400 with
\* the number of them and changes nothing
C13_CountStep ==
  \A r \in Slots :
    (/\ reqs[r].kind = "finalize" /\ reqs[r].pc = "count"
     /\ reqs'[r] # reqs[r]
     /\ CountPending(reqs[r].db) > 0) =>
      /\ reqs'[r] = Idle
      /\ resp'.kind = "finalize" /\ resp'.code = 400
      /\ resp'.pendingCount = CountPending(reqs[r].db)
      /\ UNCHANGED <<uploads, chunks, temp, final>>

\* C13: a finalize request on a session that has a chunk record not RECEIVED
\* gets the Incomplete error (400) with pendingCount equal to the number of
\* such records, and the session row, the chunk records and the files stay
\* as they are
C13_IncompleteRejected == []C13_NoEarlyAnswer /\ [][C13_CountStep]_vars

\* the count step alone
C13_CountAnswersIncomplete == [][C13_CountStep]_vars

\* the answer "Upload already completed" carries what the row stores
C14_CachedAnswer ==
  (resp.kind = "finalize" /\ resp.message = "Upload already completed") =>
    \E x \in uploads :
      /\ x.id = resp.db /\ x.upload_id = resp.u /\ x.status = "COMPLETED"
      /\ resp.code = 200
      /\ resp.hash = x.final_hash /\ resp.zipContents = x.zip_contents

\* the step that gives this answer changes nothing else
C14_CachedStep ==
  (/\ resp' # resp
   /\ resp'.kind = "finalize" /\ resp'.message = "Upload already completed") =>
    /\ reqs' = reqs
    /\ UNCHANGED <<uploads, chunks, temp, final, locked, runs, faults>>

\* the row of a COMPLETED session stays as it is
C14_StoredFixed ==
  \A x \in uploads : x.status = "COMPLETED" => x \in uploads'

\* C14: finalize on a COMPLETED session answers in one step with the stored
\* final_hash and listing: no file is hashed, inspected or moved and no record
\* changes; the stored result of a COMPLETED session never changes, so every
\* repetition of the call gets the identical answer
C14_CompletedIsCached ==
  []C14_CachedAnswer /\ [][C14_CachedStep /\ C14_StoredFixed]_vars

\* a COMPLETED session with a non-empty stored result has been answered from
\* the store
C14_Witness ==
  /\ resp.kind = "finalize" /\ resp.message = "Upload already completed"
  /\ resp.hash # NoHash /\ resp.zipContents # <<>>

\* the status changes the lifecycle allows
C15_Allowed ==
  {<<"UPLOADING", "PROCESSING">>, <<"PROCESSING", "COMPLETED">>,
   <<"PROCESSING", "FAILED">>}

C15_Step ==
  \A x \in uploads : \A y \in uploads' :
    (/\ x.id = y.id /\ x.status # y.status
     /\ AllReceived(x.id, x.total_chunks)) => <<x.status, y.status>> \in C15_Allowed

\* C15: the status of a session changes only along UPLOADING -> PROCESSING,
\* PROCESSING -> COMPLETED and PROCESSING -> FAILED; no request moves a
\* session out of COMPLETED or out of FAILED (stated for the sessions whose
\* chunks are all RECEIVED, the ones a finalize is meant to accept)
C15_StatusTransitions == [][C15_Step]_vars

\* the step that ends a failed pipeline
C16_Step ==
  \A r \in Slots :
    (/\ reqs[r].kind = "finalize" /\ reqs[r].pc = "mark_failed" /\ reqs[r].pre
     /\ reqs'[r] = Idle /\ faults' = faults) =>
      /\ \E x \in uploads' : x.id = reqs[r].db /\ x.status = "FAILED"
      /\ temp'[reqs[r].u].exists

\* C16: when a step of the finalize pipeline fails (hashing, inspection, the
\* rename, or the persisting of the result), the handler ends with the session
\* FAILED and the temp file still at its temp path (stated for a finalize that
\* found every chunk RECEIVED, and for the case that the UPDATE to FAILED
\* itself goes through)
C16_FailureKeepsTempFile == [][C16_Step]_vars

\* file f holds every byte of the source file
C17_Complete(f) == f.exists /\ f.data = SrcFile(srcN)

C17_Published ==
  \A x \in uploads :
    x.status = "COMPLETED" =>
      /\ C17_Complete(final[x.upload_id])
      /\ calculateFileHash(final[x.upload_id].data) = x.final_hash

C17_NothingElseVisible ==
  \A u \in UploadIds : final[u].exists => C17_Complete(final[u])

\* C17: whenever a session is COMPLETED its published file exists, is the
\* complete assembled content and has the stored final_hash as its digest;
\* and a file at the published path never has any other content
C17_PublishedFile == C17_Published /\ C17_NothingElseVisible

\* the steps of a chunk request whose buffer has the wrong length
C18_Step ==
  \A r \in Slots :
    (/\ reqs[r].kind = "chunk" /\ reqs[r].len # "exact" /\ reqs[r].pre
     /\ reqs'[r] # reqs[r]) =>
      /\ UNCHANGED <<temp, final, chunks>>
      /\ reqs'[r] = Idle => (resp'.kind = "chunk" /\ resp'.code >= 400)

\* C18: a chunk upload whose buffer has not the length expected for its index
\* is answered with an error, and no step of its handler changes the temp
\* file, the published file or a chunk record (stated for a request that
\* arrives after the handshake has set the session up)
C18_WrongLengthRejected == [][C18_Step]_vars

\* the chunk requests in flight, each call of uploadChunk counted once
RECURSIVE C19_Sum(_, _)
C19_Sum(f, n) == IF n = 0 THEN 0 ELSE f[n - 1] + C19_Sum(f, n - 1)

\* C19: at every moment, across start, chunk completion, chunk failure, pause,
\* resume and cancel, at most MAX_CONCURRENT_UPLOADS chunk requests are in
\* flight, two requests for one index counted as two
C19_AtMostThreeInFlight ==
  C19_Sum(inflight, MaxFileChunks) <= MAX_CONCURRENT_UPLOADS

\* every slot is taken while more chunks wait, after a pause and a failure
C19_Witness ==
  /\ C19_Sum(inflight, MaxFileChunks) = MAX_CONCURRENT_UPLOADS
  /\ session # NoSession /\ Pending # {}
  /\ netFaults > 0 /\ isPaused

\* chunk i has failed and used up its retries
C20_Exhausted(i) ==
  /\ session # NoSession /\ i \in DOMAIN session.chunks
  /\ session.chunks[i].status = "error"
  /\ session.chunks[i].retries >= MAX_RETRIES

C20_NoMoreSends ==
  \A i \in Indices(MaxFileChunks) : C20_Exhausted(i) => sends'[i] <= sends[i]

C20_SendsBounded ==
  \A i \in Indices(MaxFileChunks) : sends[i] <= 1 + MAX_RETRIES

\* C20: within one upload session uploadChunk is called at most
\* 1 + MAX_RETRIES times for an index, and a chunk whose retries are used up
\* is never dispatched again
C20_BoundedRetries == []C20_SendsBounded /\ [][C20_NoMoreSends]_vars

\* a chunk has failed until its retries were used up, while the session goes on
C20_Witness ==
  \E i \in Indices(MaxFileChunks) :
    /\ C20_Exhausted(i) /\ sends[i] >= MAX_RETRIES
    /\ isUploading /\ ~isPaused

\* C29: the sweep deletes a session only if the session was idle for the whole
\* threshold period: no run selects for deletion an UPLOADING session that had
\* a chunk marked RECEIVED after the hours passed, however old the row is
C29_RecentlyActiveKept ==
  [][(sweep.pc = "idle" /\ sweep'.pc # "idle") =>
       \A o \in sweep'.sel : o.status = "UPLOADING" => o.id \notin touched]_vars

\* C30: at most one execution of cleanupOrphanedUploads is in progress at any
\* time, also when one execution is still at an await when the timer fires again
C30_OneSweepAtATime == ~(sweep.pc # "idle" /\ overrun.pc # "idle")

\* the length of the last chunk of the selected file
C27_LastChunkSize ==
  file.size - (calculateTotalChunks(file.size) - 1) * CHUNK_SIZE

\* the length of chunk i as extractChunk cuts it
C27_Length(i) == extractChunk(file, i).end - extractChunk(file, i).start

\* C27: for every fileSize > 0, totalSize = (totalChunks - 1) * chunkSize +
\* lastChunkSize with 0 < lastChunkSize <= chunkSize; the chunks extractChunk
\* cuts are disjoint and cover the file exactly (each starts where the one
\* before ends, the first at 0, the last ends at the size; every chunk but the
\* last has chunkSize bytes, the last has lastChunkSize); and a file of
\* 12_582_912 bytes has 3 chunks, the last of 2_097_152 bytes
C27_ChunkLayout ==
  LET n == calculateTotalChunks(file.size)
  IN  file.size > 0 =>
        /\ n >= 1
        /\ 0 < C27_LastChunkSize /\ C27_LastChunkSize <= CHUNK_SIZE
        /\ extractChunk(file, 0).start = 0
        /\ extractChunk(file, n - 1).end = file.size
        /\ \A i \in Indices(n) :
             /\ extractChunk(file, i).start = i * CHUNK_SIZE
             /\ C27_Length(i) = IF i = n - 1 THEN C27_LastChunkSize ELSE CHUNK_SIZE
             /\ i < n - 1 => extractChunk(file, i).end = extractChunk(file, i + 1).start
        /\ blob # NoBlob => blob = extractChunk(file, blob.index)
        /\ file.size = 12582912 => n = 3 /\ C27_Length(2) = 2097152

\* the last chunk of the 12_582_912-byte file has been cut out
C27_Witness ==
  /\ file.size = 12582912
  /\ blob.index = 2 /\ blob.end - blob.start = 2097152

\* a session is reported failed only for a chunk that has no retries left or
\* for a finalize request that failed
C21_NoEarlyFailure ==
  (session # NoSession /\ session.status = "failed") =>
    \/ finalizes > 0
    \/ \E i \in DOMAIN session.chunks : C20_Exhausted(i)

\* C21: if some chunk exhausts its retries (and the user does not keep the
\* upload paused), the session eventually has the status "failed", reported
\* through onError, and isUploading is false; and the failure is never raised
\* while the chunk still has retries left
C21_ExhaustionFailsSession ==
  /\ []C21_NoEarlyFailure
  /\ []~isPaused =>
       \A i \in Indices(MaxFileChunks) :
         C20_Exhausted(i) ~> (session.status = "failed" /\ ~isUploading)

\* C22: for one upload session (of at least one chunk) the scheduler sends one
\* finalize request and no second one, however chunk completions, pause and
\* resume interleave
C22_OneFinalizeRequest ==
  (session # NoSession /\ session.totalChunks > 0) => finalizes <= 1

\* index i becomes "success" in the session of this step
C23_Marked(i) ==
  /\ session' # NoSession
  /\ i \in DOMAIN session'.chunks
  /\ session'.chunks[i].status = "success"
  /\ ~(session # NoSession /\ i \in DOMAIN session.chunks
         /\ session.chunks[i].status = "success")

\* C23: an index is marked success only when the server has confirmed it for
\* the current session: it is in the received list of this session's handshake,
\* or the response that marks it answers a chunk request sent with this
\* session's uploadId; the response to a request of a cancelled or earlier
\* session marks nothing
C23_SuccessOnlyWhenConfirmed ==
  [][\A i \in Indices(MaxFileChunks) :
       C23_Marked(i) =>
         (i \in handshake'.uploadedChunks \/ owner[i] = session'.uploadId)]_vars

\* index i of the session waits to be sent: it is pending, or failed with
\* retries left
C24_Waiting(i) ==
  session # NoSession /\ i \in DOMAIN session.chunks /\ i \in Pending

\* while the upload is paused no step sends a chunk request
C24_NoDispatchWhilePaused ==
  [][isPaused => \A i \in Indices(MaxFileChunks) : inflight'[i] <= inflight[i]]_vars

\* C24: after pause no new chunk request is dispatched until resume; the
\* requests in flight may complete meanwhile; once the upload runs again every
\* index that is pending or may be retried is dispatched, unless the user
\* pauses again
C24_PauseHoldsResumeContinues ==
  /\ C24_NoDispatchWhilePaused
  /\ \A i \in Indices(MaxFileChunks) :
       (QueueRuns /\ C24_Waiting(i)) ~> (isPaused \/ ~C24_Waiting(i))

\* the upload is paused, the effect has run, an index waits and a slot is
\* free, and requests sent before the pause are still in flight
C24_Witness ==
  /\ isPaused /\ ~effectDue
  /\ session # NoSession /\ Pending # {} /\ slots > 0
  /\ inflight # NoCalls
  /\ \E i \in DOMAIN session.chunks : session.chunks[i].status = "success"

\* cancelUpload takes the session away in this step
C25_Cancelled == session # NoSession /\ session' = NoSession

\* while there is no session no step sends a chunk request or a finalize request
C25_NothingSent ==
  (session = NoSession /\ session' = NoSession) =>
    /\ \A i \in Indices(MaxFileChunks) : inflight'[i] <= inflight[i]
    /\ finalizing' <= finalizing

\* the part of C25 about later requests, alone
C25_StopsSending == [][C25_NothingSent]_vars

\* C25: cancel aborts the chunk requests of the session that are outstanding,
\* and while there is no session no chunk request and no finalize request is
\* sent
C25_CancelAbortsAndStops ==
  [][(C25_Cancelled => inflight' = NoCalls) /\ C25_NothingSent]_vars

\* some chunk has used up its retries
C26_SomeExhausted == \E i \in Indices(MaxFileChunks) : C20_Exhausted(i)

\* the finalize request of the session failed
C26_FinalizeFailed == session # NoSession /\ session.status = "failed"

\* every index the handshake did not report has been dispatched, finalize has
\* been sent and the session is "completed"
C26_Completed ==
  /\ session # NoSession
  /\ session.status = "completed"
  /\ \A i \in DOMAIN session.chunks : i \notin handshake.uploadedChunks => i \in dispatched
  /\ finalizes >= 1
  /\ ~isUploading

\* C26 as stated: if the user never pauses (or cancels) and no chunk uses up
\* its retries, a session that was started is eventually "completed"
C26_EventuallyCompleted ==
  ([]~isPaused /\ []~C26_SomeExhausted) => ((session # NoSession) ~> C26_Completed)

\* C26: if the user never pauses (or cancels), no chunk uses up its retries and
\* the finalize request does not fail, then every index the handshake did not
\* report is dispatched, finalize is sent and the session is eventually
\* "completed"
C26_CompletedWhenFinalizeSucceeds ==
  ([]~isPaused /\ []~C26_SomeExhausted /\ []~C26_FinalizeFailed)
    => ((session # NoSession) ~> C26_Completed)

\* a completed session one of whose chunks failed and was sent again
C26_Witness ==
  /\ C26_Completed
  /\ finalizes = 1
  /\ session.totalChunks > 1
  /\ \E i \in DOMAIN session.chunks : session.chunks[i].retries > 0

\* C28: a finalize request is sent only in a state where every index of the
\* session is "success"; none is sent while an index is pending, uploading or
\* error
C28_FinalizeOnlyWhenAllSuccess ==
  [][finalizes' > finalizes =>
       /\ session # NoSession
       /\ \A i \in DOMAIN session.chunks : session.chunks[i].status = "success"]_vars

\* finalize has been sent for a session of several chunks, one of which had
\* failed and was sent again
C28_Witness ==
  /\ finalizing > 0
  /\ session # NoSession
  /\ session.totalChunks = MaxFileChunks
  /\ \E i \in DOMAIN session.chunks : session.chunks[i].retries > 0

\* C31: every session that exists has exactly one chunk record for each index
\* in 0 .. totalChunks - 1, in every state between two database statements
C31_ChunkRecordsComplete ==
  \A x \in uploads :
    \A i \in 0..(x.total_chunks - 1) :
      Cardinality({c \in ChunkRows(x.id) : c.chunk_index = i}) = 1

\* the chunk handler in slot r writes its buffer to the temp file in this step
C32_Writes(r) ==
  /\ reqs[r].kind = "chunk" /\ reqs[r].pc = "write" /\ reqs[r].fd = "temp"
  /\ reqs'[r].pc = "update"

\* C32: a chunk is written to the temp file of a session only after the
\* handshake has created the file and sized it to the total size; a chunk
\* upload that comes earlier writes nothing
C32_WriteOnlyAfterSized ==
  [][\A r \in Slots :
       C32_Writes(r) =>
         /\ temp[reqs[r].u].exists
         /\ Len(temp[reqs[r].u].data) = srcN
         /\ \A q \in Slots :
              ~(reqs[q].kind = "init" /\ reqs[q].u = reqs[r].u
                  /\ reqs[q].pc \in {"insert_chunks", "open", "truncate"})]_vars

\* the chunk request in slot r carries an index outside 0 .. totalChunks - 1
C33_OutOfRange(r) ==
  reqs[r].kind = "chunk" /\ reqs[r].idx \notin 0..(srcN - 1)

\* C33: a chunk upload whose index is not in 0 .. totalChunks - 1 is answered
\* with an error, and no step of its handler changes the temp file or a chunk
\* record (stated for the steps taken while no handshake is in progress)
C33_BadIndexRejected ==
  [][\A r \in Slots :
       (/\ C33_OutOfRange(r) /\ reqs'[r] # reqs[r]
        /\ \A q \in Slots : reqs[q].kind # "init") =>
         /\ temp' = temp
         /\ chunks' = chunks
         /\ reqs'[r].kind = "idle" => resp'.code >= 400]_vars

\* C34: when the handshake succeeded, two runs that differ only in the local
\* snapshot stored for the session seed the same chunk states: the resumable
\* startUpload the ones the server's received list gives, the startUpload the
\* page imports the same ones whatever is stored
C34_SeedIgnoresSnapshot ==
  /\ (seeded # NoSeed /\ handshake.ok) =>
       /\ seeded.a = seeded.b
       /\ \A i \in DOMAIN seeded.a :
            seeded.a[i].status = "success" <=> i \in handshake.uploadedChunks
  /\ (session # NoSession /\ handshake.ok) =>
       session.chunks = SeedChunks(calculateTotalChunks(file.size), {})

\* the handshake succeeded; the two snapshots differ, both are fresh, and one
\* of them holds as "success" an index the server did not report
C34_Witness ==
  /\ seeded # NoSeed /\ handshake.ok
  /\ snapshots.a.stored /\ ~snapshots.a.expired
  /\ snapshots.b.stored /\ ~snapshots.b.expired
  /\ snapshots.a.success # snapshots.b.success
  /\ \E i \in snapshots.a.success : i \notin handshake.uploadedChunks
  /\ handshake.uploadedChunks # {}

C36_Same(c, d) == d.upload_id = c.upload_id /\ d.chunk_index = c.chunk_index

\* a chunk record that is RECEIVED is not PENDING after the step
C36_Monotonic ==
  [][\A c \in chunks : \A d \in chunks' :
       (C36_Same(c, d) /\ c.status = "RECEIVED") => d.status = "RECEIVED"]_vars

\* C36: a chunk record that is RECEIVED never becomes PENDING again, and a
\* chunk record changes only in the last step of a chunk upload for its
\* session and index whose write wrote the whole chunk
C36_ChangedOnlyBySuccessfulWrite ==
  [][\A c \in chunks : \A d \in chunks' :
       C36_Same(c, d) =>
         /\ c.status = "RECEIVED" => d.status = "RECEIVED"
         /\ d # c =>
              \E r \in Slots :
                /\ reqs[r].kind = "chunk" /\ reqs[r].pc = "update"
                /\ reqs[r].db = c.upload_id /\ reqs[r].idx = c.chunk_index
                /\ reqs'[r].kind = "idle"
                /\ reqs[r].wr = "full" /\ reqs[r].len = "exact"]_vars

\* C37: withRetry calls fn at most maxRetries + 1 times; it returns the value
\* of the first call that succeeds, which is the last call it makes; and when
\* it throws, every call has failed and the error is that of the last call
C37_RetryContract ==
  LET calls == Len(retry.outcomes) IN
  /\ calls <= retry.maxRetries + 1
  /\ \A k \in 1..(calls - 1) : ~retry.outcomes[k]
  /\ retry.result.kind = "returned" =>
       calls >= 1 /\ retry.outcomes[calls] /\ retry.result.of = calls
  /\ retry.result.kind = "thrown" =>
       /\ \A k \in 1..calls : ~retry.outcomes[k]
       /\ calls >= 1 /\ retry.result.of = calls
  /\ retry.pc = "done" <=> retry.result.kind # "none"

\* withRetry returned the value of its last permitted call, after MaxBudget
\* failures
C37_Witness ==
  /\ retry.result.kind = "returned"
  /\ retry.maxRetries = MaxBudget
  /\ Len(retry.outcomes) = MaxBudget + 1

\* C38: the wait after failed attempt n (n = 0, 1, ...) is at least
\* baseDelay * 2^n and less than baseDelay * 2^n + 500; with the default base
\* delay the waits are 1000, 2000, 4000 plus jitter; there is one wait per
\* failed attempt but none after the final attempt
C38_BackoffDelays ==
  /\ \A n \in 1..Len(retry.delays) :
       /\ retry.delays[n] >= retry.baseDelay * 2^(n - 1)
       /\ retry.delays[n] < retry.baseDelay * 2^(n - 1) + 500
       /\ (retry.baseDelay = 1000 /\ n <= 3) =>
            retry.delays[n] - <<1000, 2000, 4000>>[n] \in 0..499
  /\ Len(retry.delays) <= retry.maxRetries
  /\ retry.result.kind = "thrown" => Len(retry.delays) = Len(retry.outcomes) - 1
  /\ (retry.pc = "try" /\ retry.attempt <= retry.maxRetries) =>
       Len(retry.delays) = Len(retry.outcomes)

\* withRetry threw after MAX_RETRIES + 1 attempts with the default base delay:
\* three waits, the last one of at least 4 seconds with the greatest jitter
C38_Witness ==
  /\ retry.result.kind = "thrown"
  /\ retry.maxRetries = MAX_RETRIES /\ retry.baseDelay = BASE_RETRY_DELAY
  /\ Len(retry.delays) = 3
  /\ retry.delays[1] = 1000 /\ retry.delays[3] = 4499

\* session d is in status PROCESSING
C39_Processing(d) == \E x \in uploads : x.id = d /\ x.status = "PROCESSING"

\* C39: every session that enters PROCESSING eventually leaves it (for
\* COMPLETED or FAILED), also when the server process stops during the
\* pipeline and is started again; it does not stay PROCESSING forever
C39_ProcessingEnds == \A d \in DbIds : C39_Processing(d) ~> ~C39_Processing(d)

\* the same while the process keeps running (holds under SpecCrash)
C39_EndsWithoutRestart ==
  \A d \in DbIds :
    (C39_Processing(d) /\ \E r \in Slots : reqs[r].kind = "finalize" /\ reqs[r].db = d)
      ~> (~C39_Processing(d) \/ \A r \in Slots : reqs[r].kind = "idle")

\* a name with exactly one path segment: a file or a folder at the top level
\* of the archive
C40_TopLevel(name) ==
  Cardinality({i \in 1..Len(name) :
                 name[i] # "/" /\ (i = 1 \/ name[i - 1] = "/")}) = 1

\* C40: every name peekZipContents resolves with is the name of an entry at
\* the top level of the archive (a top-level file or a top-level folder)
C40_TopLevelOnly ==
  peek.settled = "resolved" =>
    \A k \in 1..Len(peek.value) : C40_TopLevel(peek.value[k])

\* the promise is never rejected and is resolved when the call ends; the
\* names are in archive order; the list is empty when the file cannot be
\* opened as a ZIP; it holds at most maxEntries names when maxEntries >= 1
C40_OtherParts ==
  /\ peek.settled # "rejected"
  /\ peek.pc = "done" <=> peek.settled = "resolved"
  /\ peek.settled = "resolved" =>
       /\ \E f \in [1..Len(peek.value) -> 1..Len(peek.zip)] :
            /\ \A k \in 1..Len(peek.value) : peek.value[k] = peek.zip[f[k]]
            /\ \A k \in 1..(Len(peek.value) - 1) : f[k] < f[k + 1]
       /\ ~peek.isZip => peek.value = <<>>
       /\ peek.maxEntries >= 1 => Len(peek.value) <= peek.maxEntries

\* the result holds at most maxEntries names (fails for maxEntries = 0)
C40_AtMostMaxEntries ==
  peek.settled = "resolved" => Len(peek.value) <= peek.maxEntries
====
